---- MODULE Spec2Model ----
(***************************************************************************)
(* A model of the NoesisFood scan pipeline: the scoring engine, the        *)
(* beverage classifier, the OpenFoodFacts normalizer, the data-quality     *)
(* assessor and scan_product (app/services/*.py).                          *)
(*                                                                         *)
(* Number representation.  A Python float is modelled as an IEEE 754       *)
(* binary64 value and every operation on floats (+, -, *, /, comparison,   *)
(* max, min, round, float(str)) is rounded as the hardware rounds it, so   *)
(* that 6.0 * 5.0 + 2.3 * 10.0 + 5.3 * 4.0 and 0.026 * 500 come out as in  *)
(* the code and not as in exact decimal arithmetic.  A Python int that the *)
(* code computes (a rounded penalty, the score) is an integer of the       *)
(* model; these are 32-bit, so a profile whose rounded penalties reach     *)
(* 2^31 is outside the model.                                              *)
(*                                                                         *)
(* Strings are over the alphabet of ASCII, the Latin-1 supplement, the     *)
(* Unicode white space, the Arabic-Indic, Devanagari and fullwidth digits, *)
(* U+0130, U+0307, U+212A, U+212B and U+2014, with lower(), strip() and    *)
(* the classes \d, \s, \w and \b as Python has them on str.  A character  *)
(* is a one-character string; one that is not printable ASCII, tab, line   *)
(* feed, form feed or carriage return is written as its code point         *)
(* ("U+00E9").                                                             *)
(***************************************************************************)
EXTENDS Integers, Sequences, FiniteSets, TLC

VARIABLES
    pc,           \* a function under check: "call" before it runs, "return" after
                  \* ("raised" when an exception left the classifier)
    arg,          \* a function under check: its arguments, a record by parameter name
    ret,          \* a function under check: its return value (<<>> before the call)
    products_db,  \* scanner_service.products_db: product id -> local record
    rasff_db,     \* scanner_service.rasff_db: product id -> list of alerts
    cache,        \* openfoodfacts_service._CACHE: barcode -> [ts, data]
    now,          \* time.time(), in seconds
    task_pc,      \* per scan_product call: "idle", "lookup" (advisories read, catalog
                  \* not yet), "http" (awaiting the GET), "done",
                  \* "raised" (an exception left the call)
    task_pid,     \* per scan_product call: pid, the stripped product id
    task_alerts,  \* per scan_product call: rasff_alerts, read when the call began
    task_product, \* per scan_product call: product, the local record (<<>> for None or {})
    task_outcome, \* per scan_product call: how its GET ended (<<>> if none was sent)
    task_off,     \* per scan_product call: off, what fetch_off_product returned (<<>> if not called)
    task_result   \* per scan_product call: the returned dict or the exception raised
                  \* (<<>> until then)

fnvars == <<pc, arg, ret>>
taskvars == <<task_pc, task_pid, task_alerts, task_product, task_outcome, task_off, task_result>>
scanvars == <<products_db, rasff_db, cache, now, taskvars>>
vars == <<pc, arg, ret, products_db, rasff_db, cache, now, task_pc, task_pid, task_alerts,
          task_product, task_outcome, task_off, task_result>>

Max(a, b) == IF a >= b THEN a ELSE b
Min(a, b) == IF a <= b THEN a ELSE b

----------------------------------------------------------------------------
(* Natural numbers of any size, for the significands of floats: a number is *)
(* the little-endian sequence of its 14-bit limbs, without a leading zero   *)
(* limb; zero is << >>.  (The model's integers are 32-bit.)                  *)

LimbBase == 2^14

Limb(a, i) == IF i <= Len(a) THEN a[i] ELSE 0

RECURSIVE BTrim(_)
BTrim(a) == IF a # << >> /\ a[Len(a)] = 0 THEN BTrim(SubSeq(a, 1, Len(a) - 1)) ELSE a

RECURSIVE BFromNat(_)
BFromNat(n) == IF n = 0 THEN << >> ELSE <<n % LimbBase>> \o BFromNat(n \div LimbBase)

RECURSIVE BToNat(_)
BToNat(a) == IF a = << >> THEN 0 ELSE a[1] + LimbBase * BToNat(Tail(a))

RECURSIVE BAddFrom(_, _, _, _)
BAddFrom(a, b, i, carry) ==
    IF i > Len(a) /\ i > Len(b) THEN (IF carry = 0 THEN << >> ELSE <<carry>>)
    ELSE <<(Limb(a, i) + Limb(b, i) + carry) % LimbBase>>
         \o BAddFrom(a, b, i + 1, (Limb(a, i) + Limb(b, i) + carry) \div LimbBase)
BAdd(a, b) == BAddFrom(a, b, 1, 0)

\* a - b, for a >= b
RECURSIVE BSubFrom(_, _, _, _)
BSubFrom(a, b, i, borrow) ==
    IF i > Len(a) THEN << >>
    ELSE <<(a[i] - Limb(b, i) - borrow) % LimbBase>>
         \o BSubFrom(a, b, i + 1, IF a[i] - Limb(b, i) - borrow < 0 THEN 1 ELSE 0)
BSub(a, b) == BTrim(BSubFrom(a, b, 1, 0))

\* -1, 0, 1 as a < b, a = b, a > b
RECURSIVE BCmpFrom(_, _, _)
BCmpFrom(a, b, i) ==
    IF i = 0 THEN 0
    ELSE IF a[i] < b[i] THEN -1
    ELSE IF a[i] > b[i] THEN 1
    ELSE BCmpFrom(a, b, i - 1)
BCmp(a, b) ==
    IF Len(a) < Len(b) THEN -1 ELSE IF Len(a) > Len(b) THEN 1 ELSE BCmpFrom(a, b, Len(a))

\* a * k for 0 <= k < 2^14
RECURSIVE BMulSmallFrom(_, _, _, _)
BMulSmallFrom(a, k, i, carry) ==
    IF i > Len(a) THEN (IF carry = 0 THEN << >> ELSE <<carry>>)
    ELSE <<(a[i] * k + carry) % LimbBase>>
         \o BMulSmallFrom(a, k, i + 1, (a[i] * k + carry) \div LimbBase)
BMulSmall(a, k) == IF k = 0 THEN << >> ELSE BMulSmallFrom(a, k, 1, 0)

\* a * 2^(14 n)
BShiftLimbs(a, n) == IF a = << >> THEN << >> ELSE [i \in 1 .. n |-> 0] \o a

RECURSIVE BMul(_, _)
BMul(a, b) ==
    IF a = << >> \/ b = << >> THEN << >>
    ELSE BAdd(BMulSmall(a, b[1]), BShiftLimbs(BMul(a, Tail(b)), 1))

\* a \div d and a % d for 0 < d <= 2^14, from the top limb down; rem < d is
\* the remainder of the limbs above i
RECURSIVE BDivSmallFrom(_, _, _, _)
BDivSmallFrom(a, d, i, rem) ==
    IF i = 0 \/ rem >= d THEN << >>
    ELSE BDivSmallFrom(a, d, i - 1, (rem * LimbBase + a[i]) % d)
         \o <<(rem * LimbBase + a[i]) \div d>>
RECURSIVE BModSmallFrom(_, _, _, _)
BModSmallFrom(a, d, i, rem) ==
    IF i = 0 \/ rem >= d THEN rem
    ELSE BModSmallFrom(a, d, i - 1, (rem * LimbBase + a[i]) % d)
BDivSmall(a, d) ==
    [q |-> BTrim(BDivSmallFrom(a, d, Len(a), 0)), r |-> BModSmallFrom(a, d, Len(a), 0)]

\* a * 2^n
BShl(a, n) == BShiftLimbs(BMulSmall(a, 2^(n % 14)), n \div 14)
\* a \div 2^n as q, and whether a one bit was shifted out as sticky
BShrParts(a, whole, d) ==
    [q |-> d.q,
     sticky |-> d.r # 0 \/ \E i \in 1 .. Min(whole, Len(a)) : a[i] # 0]
BShr(a, n) ==
    BShrParts(a, n \div 14, BDivSmall(SubSeq(a, n \div 14 + 1, Len(a)), 2^(n % 14)))

\* the number of bits of a
RECURSIVE Bits(_)
Bits(x) == IF x = 0 THEN 0 ELSE 1 + Bits(x \div 2)
BitLen(a) == IF a = << >> THEN 0 ELSE 14 * (Len(a) - 1) + Bits(a[Len(a)])
BOdd(a) == a # << >> /\ a[1] % 2 = 1

\* 10^k for k <= 4
SmallPow10(k) == IF k = 0 THEN 1 ELSE IF k = 1 THEN 10 ELSE IF k = 2 THEN 100
                 ELSE IF k = 3 THEN 1000 ELSE 10000
\* a * 10^k
RECURSIVE BMulPow10(_, _)
BMulPow10(a, k) ==
    IF a = << >> THEN a
    ELSE IF k <= 4 THEN BMulSmall(a, SmallPow10(k))
    ELSE BMulPow10(BMulPow10(a, k \div 2), k - k \div 2)
\* a \div 10^k as q, and whether a non-zero digit was cut off as sticky
RECURSIVE BDivPow10(_, _, _)
BDivPow10Then(first, k) == BDivPow10(first.q, k, first.sticky)
BDivPow10(a, k, sticky) ==
    IF a = << >> THEN [q |-> a, sticky |-> sticky]
    ELSE IF k <= 4
    THEN [q |-> BDivSmall(a, SmallPow10(k)).q,
          sticky |-> sticky \/ BDivSmall(a, SmallPow10(k)).r # 0]
    ELSE BDivPow10Then(BDivPow10(a, k \div 2, sticky), k - k \div 2)

\* the number written with the decimal digits ds (a sequence of 0 .. 9)
RECURSIVE BFromDigits(_)
BFromDigits(ds) ==
    IF ds = << >> THEN << >>
    ELSE BAdd(BMulSmall(BFromDigits(SubSeq(ds, 1, Len(ds) - 1)), 10), BFromNat(ds[Len(ds)]))

----------------------------------------------------------------------------
(* Python floats: IEEE 754 binary64, round to nearest, ties to even.  A     *)
(* float is [k, s, e, m]: k is "fin", "inf" or "nan", s the sign bit, and a *)
(* finite float is (-1)^s * m * 2^e; m has 53 bits, or fewer with           *)
(* e = -1074 (subnormal); zero has m = << >> and e = 0.  Every float has    *)
(* one representation, so = on the records is `is the same float` (0.0 and  *)
(* -0.0 differ) and FEq is Python's ==.                                      *)

FZero(s) == [k |-> "fin", s |-> s, e |-> 0, m |-> << >>]
FInf(s) == [k |-> "inf", s |-> s, e |-> 0, m |-> << >>]
FNaN == [k |-> "nan", s |-> 0, e |-> 0, m |-> << >>]

\* the float of sign s with significand m (at most 2^53, after a carry) and
\* exponent e; a value past the largest float is an infinity
FFinish(s, m, e) ==
    IF m = << >> THEN FZero(s)
    ELSE IF BitLen(m) = 54
    THEN (IF e + 54 > 1024 THEN FInf(s)
          ELSE [k |-> "fin", s |-> s, e |-> e + 1, m |-> BShr(m, 1).q])
    ELSE IF e + BitLen(m) > 1024 THEN FInf(s)
    ELSE [k |-> "fin", s |-> s, e |-> e, m |-> m]

\* round to nearest, ties to even: sh is the value with one bit kept below
\* the last place of exponent q
FRoundShifted(s, sh, sticky, q) ==
    IF BOdd(sh.q) /\ (sh.sticky \/ sticky \/ BOdd(BShr(sh.q, 1).q))
    THEN FFinish(s, BAdd(BShr(sh.q, 1).q, <<1>>), q)
    ELSE FFinish(s, BShr(sh.q, 1).q, q)

\* the float nearest to (-1)^s * (n + f) * 2^e, where 0 < f < 1 if sticky and
\* f = 0 otherwise; with sticky, n has at least 55 bits
FPackAt(s, n, e, sticky, q) ==
    IF q <= e THEN FFinish(s, BShl(n, e - q), q)
    ELSE FRoundShifted(s, BShr(n, q - e - 1), sticky, q)
FPack(s, n, e, sticky) ==
    IF n = << >> THEN FZero(s)
    ELSE FPackAt(s, n, e, sticky, Max(e + BitLen(n) - 53, -1074))

\* float(n) of an integer
FromInt(n) == FPack(IF n < 0 THEN 1 ELSE 0, BFromNat(IF n < 0 THEN -n ELSE n), 0, FALSE)

\* a number of bits b with 10^k < 2^b
Pow10Bits(k) == (k * 3322) \div 1000 + 1
\* the float nearest to (-1)^s * d * 10^x for a natural number d: the value
\* of a literal and of float(str).  For x < 0 the quotient d * 2^b / 10^-x is
\* taken with b large enough to leave 60 bits.
FromDecimalDown(s, k, div) == FPack(s, div.q, -(60 + Pow10Bits(k)), div.sticky)
FromDecimal(s, d, x) ==
    IF d = << >> THEN FZero(s)
    ELSE IF x > 310 THEN FInf(s)
    ELSE IF (BitLen(d) * 302) \div 1000 + 1 + x < -325 THEN FZero(s)
    ELSE IF x >= 0 THEN FPack(s, BMulPow10(d, x), 0, FALSE)
    ELSE FromDecimalDown(s, -x, BDivPow10(BShl(d, 60 + Pow10Bits(-x)), -x, FALSE))
\* the literal n * 10^x for an integer n: Dec(125, -1) is 12.5
Dec(n, x) == FromDecimal(IF n < 0 THEN 1 ELSE 0, BFromNat(IF n < 0 THEN -n ELSE n), x)

FIsZero(a) == a.k = "fin" /\ a.m = << >>
FNeg(a) == IF a.k = "nan" THEN a ELSE [a EXCEPT !.s = 1 - a.s]

\* -1, 0, 1 as |a| < |b|, |a| = |b|, |a| > |b|; neither is a NaN
MagCmp(a, b) ==
    IF a.k = "inf" \/ b.k = "inf"
    THEN (IF a.k = b.k THEN 0 ELSE IF a.k = "inf" THEN 1 ELSE -1)
    ELSE IF a.m = << >> \/ b.m = << >>
    THEN (IF a.m = b.m THEN 0 ELSE IF a.m = << >> THEN -1 ELSE 1)
    ELSE IF a.e + BitLen(a.m) # b.e + BitLen(b.m)
    THEN (IF a.e + BitLen(a.m) < b.e + BitLen(b.m) THEN -1 ELSE 1)
    ELSE BCmp(a.m, b.m)
\* -1, 0, 1 as a < b, a == b, a > b; neither is a NaN
FCmp(a, b) ==
    IF FIsZero(a) /\ FIsZero(b) THEN 0
    ELSE IF a.s # b.s THEN (IF a.s = 1 THEN -1 ELSE 1)
    ELSE IF a.s = 0 THEN MagCmp(a, b) ELSE MagCmp(b, a)
\* a < b, a <= b, a > b, a >= b, a == b: false when either is a NaN
FLt(a, b) == a.k # "nan" /\ b.k # "nan" /\ FCmp(a, b) < 0
FLe(a, b) == a.k # "nan" /\ b.k # "nan" /\ FCmp(a, b) <= 0
FGt(a, b) == FLt(b, a)
FGe(a, b) == FLe(b, a)
FEq(a, b) == a.k # "nan" /\ b.k # "nan" /\ FCmp(a, b) = 0

\* max(a, b) and min(a, b): a unless b > a (b < a), so a NaN or a zero of
\* the other sign in second place is dropped
FMax(a, b) == IF FGt(b, a) THEN b ELSE a
FMin(a, b) == IF FLt(b, a) THEN b ELSE a

\* hi + lo for finite non-zero floats of sign s with hi.e >= lo.e
FAddMags(s, hi, lo) ==
    IF hi.e - lo.e > 64
    THEN FPack(s, BShl(hi.m, 2), hi.e - 2, TRUE)
    ELSE FPack(s, BAdd(BShl(hi.m, hi.e - lo.e), lo.m), lo.e, FALSE)
\* big - small for finite non-zero floats, |big| > |small|; s is the sign
\* of the result
FSubMags(s, big, small) ==
    IF big.e - small.e > 64
    THEN FPack(s, BSub(BShl(big.m, 2), <<1>>), big.e - 2, TRUE)
    ELSE IF big.e >= small.e
    THEN FPack(s, BSub(BShl(big.m, big.e - small.e), small.m), small.e, FALSE)
    ELSE FPack(s, BSub(big.m, BShl(small.m, small.e - big.e)), big.e, FALSE)
\* a + b
FAdd(a, b) ==
    IF a.k = "nan" \/ b.k = "nan" THEN FNaN
    ELSE IF a.k = "inf" THEN (IF b.k = "inf" /\ b.s # a.s THEN FNaN ELSE a)
    ELSE IF b.k = "inf" THEN b
    ELSE IF FIsZero(a) THEN (IF FIsZero(b) THEN FZero(IF a.s = 1 /\ b.s = 1 THEN 1 ELSE 0) ELSE b)
    ELSE IF FIsZero(b) THEN a
    ELSE IF a.s = b.s THEN (IF a.e >= b.e THEN FAddMags(a.s, a, b) ELSE FAddMags(a.s, b, a))
    ELSE IF MagCmp(a, b) = 0 THEN FZero(0)
    ELSE IF MagCmp(a, b) > 0 THEN FSubMags(a.s, a, b)
    ELSE FSubMags(b.s, b, a)
\* a - b
FSub(a, b) == FAdd(a, FNeg(b))

\* a * b
FMul(a, b) ==
    IF a.k = "nan" \/ b.k = "nan" THEN FNaN
    ELSE IF a.k = "inf" \/ b.k = "inf"
    THEN (IF FIsZero(a) \/ FIsZero(b) THEN FNaN ELSE FInf((a.s + b.s) % 2))
    ELSE FPack((a.s + b.s) % 2, BMul(a.m, b.m), a.e + b.e, FALSE)

\* a / float(d) for an integer 0 < d <= 2^14
FDivIntQ(a, div) == FPack(a.s, div.q, a.e - 60, div.r # 0)
FDivInt(a, d) ==
    IF a.k # "fin" \/ a.m = << >> THEN a
    ELSE FDivIntQ(a, BDivSmall(BShl(a.m, 60), d))

\* |a| * 10^digits rounded to an integer, ties to even, for a finite a
\* with a.e < 0
FScaledRound(sh, kept) ==
    IF BOdd(sh.q) /\ (sh.sticky \/ BOdd(kept)) THEN BAdd(kept, <<1>>) ELSE kept
FScaled(a, digits) ==
    IF -a.e > BitLen(BMulPow10(a.m, digits)) + 1 THEN << >>
    ELSE FScaledRound(BShr(BMulPow10(a.m, digits), -a.e - 1),
                      BShr(BShr(BMulPow10(a.m, digits), -a.e - 1).q, 1).q)

\* round(a) of a finite float: the nearest integer, ties to even
FRoundInt(a) ==
    IF a.m = << >> THEN 0
    ELSE IF a.e >= 0 THEN (1 - 2 * a.s) * BToNat(BShl(a.m, a.e))
    ELSE (1 - 2 * a.s) * BToNat(FScaled(a, 0))

\* round(a, ndigits) for ndigits >= 0: the float nearest to the decimal with
\* ndigits digits after the point that is nearest to a, ties to the even
\* digit; an infinity or a NaN is returned as it is
FRoundDigits(a, ndigits) ==
    IF a.k # "fin" \/ a.m = << >> \/ a.e >= 0 THEN a
    ELSE FromDecimal(a.s, FScaled(a, ndigits), -ndigits)

----------------------------------------------------------------------------
(* scanner_service.py: constants *)

\* 12.5
SERVING_SUGAR_THRESHOLD_G == Dec(125, -1)
\* 1.0
SERVING_SUGAR_MULTIPLIER == Dec(10, -1)
\* the integer 20
SERVING_SUGAR_PENALTY_CAP == 20
\* 3.0
PROTEIN_BONUS_THRESHOLD_G == Dec(30, -1)
\* 1.0
PROTEIN_BONUS_MULTIPLIER == Dec(10, -1)
\* the integer 8
PROTEIN_BONUS_CAP == 8

----------------------------------------------------------------------------
(* Python helpers *)

\* an exception leaving a function, by its type
Raise(type) == [exception |-> type]
Raised(result) == "exception" \in DOMAIN result

\* the exception int(round(x)) raises: round() of an infinity raises
\* OverflowError and round() of a NaN ValueError; "" for a finite x
RoundError(x) ==
    IF x.k = "inf" THEN "OverflowError" ELSE IF x.k = "nan" THEN "ValueError" ELSE ""
\* int(round(x)) of a finite x: the nearest integer, ties to the even one
PyRound(x) == FRoundInt(x)

\* float(d.get(key, 0) or 0) on a nutrition_per_100 dict: a missing key, None,
\* 0.0 and -0.0 all give 0.0; a NaN is truthy and stays.  In a
\* nutrition_per_100 dict a key holding None is modelled as a key that is not
\* there (d.get(key) is None in both cases).
GetNum(d, key) ==
    IF key \in DOMAIN d /\ ~FIsZero(d[key]) THEN d[key] ELSE FZero(0)

\* float(d.get("serving_size", 1.0) or 1.0): missing, None and a zero give 1.0
GetServing(d) ==
    IF "serving_size" \in DOMAIN d /\ ~FIsZero(d["serving_size"])
    THEN d["serving_size"] ELSE Dec(10, -1)

----------------------------------------------------------------------------
(* scanner_service.py: the scoring engine *)

\* _clamp_score(x) = max(0, min(100, int(round(x)))) of a finite x
clamp_score(x) == Max(0, Min(100, PyRound(x)))

\* _who_sugar_per_serving: (sugar_per_100 / 100.0) * serving_size
who_sugar_per_serving(n) == FMul(FDivInt(GetNum(n, "sugar_g"), 100), GetServing(n))

\* _protein_bonus
ProteinBonusForBeverageOnly(n, is_beverage) ==
    IF ~is_beverage THEN FZero(0)
    ELSE IF FLe(GetNum(n, "protein_g"), PROTEIN_BONUS_THRESHOLD_G) THEN FZero(0)
    ELSE FMin(FromInt(PROTEIN_BONUS_CAP),
              FMax(FZero(0), FMul(FSub(GetNum(n, "protein_g"), PROTEIN_BONUS_THRESHOLD_G),
                                  PROTEIN_BONUS_MULTIPLIER)))
ProteinBonusForBeverageToo(n, is_beverage) ==
    IF FLe(GetNum(n, "protein_g"), PROTEIN_BONUS_THRESHOLD_G) THEN FZero(0)
    ELSE FMin(FromInt(PROTEIN_BONUS_CAP),
              FMax(FZero(0), FMul(FSub(GetNum(n, "protein_g"), PROTEIN_BONUS_THRESHOLD_G),
                                  PROTEIN_BONUS_MULTIPLIER)))
protein_bonus(n, is_beverage) ==
    IF is_beverage THEN FZero(0)
    ELSE IF FLe(GetNum(n, "protein_g"), PROTEIN_BONUS_THRESHOLD_G) THEN FZero(0)
    ELSE FMin(FromInt(PROTEIN_BONUS_CAP),
              FMax(FZero(0), FMul(FSub(GetNum(n, "protein_g"), PROTEIN_BONUS_THRESHOLD_G),
                                  PROTEIN_BONUS_MULTIPLIER)))

\* lines 124-134: the capped per-serving sugar penalty
penalty_serving_sugar(sugar_per_serving) ==
    FMin(FromInt(SERVING_SUGAR_PENALTY_CAP),
         FMax(FZero(0),
              IF FGt(sugar_per_serving, SERVING_SUGAR_THRESHOLD_G)
              THEN FMul(FSub(sugar_per_serving, SERVING_SUGAR_THRESHOLD_G),
                        SERVING_SUGAR_MULTIPLIER)
              ELSE FZero(0)))

\* lines 138-143: the four penalties added from left to right
total_penalty(penalty_sugar, penalty_salt, penalty_sat_fat, serving_penalty) ==
    FAdd(FAdd(FAdd(penalty_sugar, penalty_salt), penalty_sat_fat), serving_penalty)

\* lines 145-183: the returned dict for the computed terms, or the exception
\* of the first round() that is handed an infinity or a NaN.  The breakdown
\* keeps the fields that vary with the input; the constant version, basis
\* and rule fields are left out.
score_result(n, is_beverage, penalty_sugar, penalty_salt, penalty_sat_fat, sugar_per_serving, serving_penalty, bonus_protein, total, raw) ==
    IF \E x \in {raw, penalty_sugar, penalty_salt, penalty_sat_fat, serving_penalty,
                 bonus_protein, total} : RoundError(x) # ""
    THEN Raise(IF RoundError(raw) # "" THEN RoundError(raw)
               ELSE IF RoundError(penalty_sugar) # "" THEN RoundError(penalty_sugar)
               ELSE IF RoundError(penalty_salt) # "" THEN RoundError(penalty_salt)
               ELSE IF RoundError(penalty_sat_fat) # "" THEN RoundError(penalty_sat_fat)
               ELSE IF RoundError(serving_penalty) # "" THEN RoundError(serving_penalty)
               ELSE IF RoundError(bonus_protein) # "" THEN RoundError(bonus_protein)
               ELSE RoundError(total))
    ELSE [ score |-> clamp_score(raw),
           breakdown |->
             [ unit |-> IF "unit" \in DOMAIN n THEN n["unit"] ELSE "g",
               sugar_g_per_100 |-> GetNum(n, "sugar_g"),
               salt_g_per_100 |-> GetNum(n, "salt_g"),
               sat_fat_g_per_100 |-> GetNum(n, "sat_fat_g"),
               protein_g_per_100 |-> GetNum(n, "protein_g"),
               serving_size |-> GetServing(n),
               sugar_per_serving_g |-> FRoundDigits(sugar_per_serving, 1),
               penalty_sugar |-> PyRound(penalty_sugar),
               penalty_salt |-> PyRound(penalty_salt),
               penalty_sat_fat |-> PyRound(penalty_sat_fat),
               penalty_serving_sugar |-> PyRound(serving_penalty),
               bonus_protein |-> PyRound(bonus_protein),
               total_penalty |-> PyRound(total),
               final_score |-> clamp_score(raw),
               strict_profile |-> is_beverage ] ]

\* lines 118-145: the terms of the score, each computed once
score_terms(n, is_beverage, penalty_sugar, penalty_salt, penalty_sat_fat, sugar_per_serving, serving_penalty, bonus_protein, total) ==
    score_result(n, is_beverage, penalty_sugar, penalty_salt, penalty_sat_fat,
                 sugar_per_serving, serving_penalty, bonus_protein, total,
                 FAdd(FSub(FromInt(100), total), bonus_protein))
score_penalties(n, is_beverage, penalty_sugar, penalty_salt, penalty_sat_fat, sugar_per_serving, serving_penalty) ==
    score_terms(n, is_beverage, penalty_sugar, penalty_salt, penalty_sat_fat,
                sugar_per_serving, serving_penalty, protein_bonus(n, is_beverage),
                total_penalty(penalty_sugar, penalty_salt, penalty_sat_fat, serving_penalty))

\* _v3_hybrid_score: weights 6.0 (beverage) or 5.0, 10.0 and 4.0
v3_hybrid_score(n, is_beverage) ==
    score_penalties(n, is_beverage,
                    FMul(GetNum(n, "sugar_g"), IF is_beverage THEN Dec(60, -1) ELSE Dec(50, -1)),
                    FMul(GetNum(n, "salt_g"), Dec(100, -1)),
                    FMul(GetNum(n, "sat_fat_g"), Dec(40, -1)),
                    who_sugar_per_serving(n),
                    penalty_serving_sugar(who_sugar_per_serving(n)))

----------------------------------------------------------------------------
(* scanner_service.py: the data-quality assessor *)

\* the confidence branch of _build_data_quality
ConfidenceCompletenessFirst(source, nutrition_complete, ingredients_available) ==
    IF nutrition_complete /\ ingredients_available THEN "high"
    ELSE IF nutrition_complete THEN "medium"
    ELSE IF source = "local" THEN "high"
    ELSE "low"
Confidence(source, nutrition_complete, ingredients_available) ==
    IF source = "local" THEN "high"
    ELSE IF nutrition_complete /\ ingredients_available THEN "high"
    ELSE IF nutrition_complete THEN "medium"
    ELSE "low"

\* _build_data_quality.  nutrition_per_100.get(f) is not None is f \in DOMAIN
\* (a key holding None is modelled as a missing key).
build_data_quality(source, nutrition_per_100, ingredients, serving_size_inferred, is_beverage_inferred, is_beverage, beverage_reason) ==
    LET required_fields == <<"sugar_g", "salt_g", "sat_fat_g">>
        IsPresent(f) == f \in DOMAIN nutrition_per_100
        IsMissing(f) == f \notin DOMAIN nutrition_per_100
        present == SelectSeq(required_fields, IsPresent)
        missing == SelectSeq(required_fields, IsMissing)
        nutrition_complete == Len(missing) = 0
        ingredients_available == Len(ingredients) > 0
    IN  [ source |-> source,
          nutrition_fields_present |-> present,
          missing_fields |-> missing,
          nutrition_complete |-> nutrition_complete,
          ingredients_available |-> ingredients_available,
          serving_size_inferred |-> serving_size_inferred,
          is_beverage |-> is_beverage,
          is_beverage_inferred |-> is_beverage_inferred,
          beverage_inference_reason |-> beverage_reason,
          confidence |-> Confidence(source, nutrition_complete, ingredients_available) ]

----------------------------------------------------------------------------
(* Python strings.  A string is a sequence of one-character strings, so that *)
(* lower(), strip(), the `in` substring test and the regular expressions     *)
(* are computed character by character.  A string field that is missing,    *)
(* None or "" is the empty sequence: the normalizer only ever reads such a  *)
(* field as `x or default` or `if not x`, which treat the three alike.      *)

UpperCase == << "A", "B", "C", "D", "E", "F", "G", "H", "I", "J", "K", "L", "M",
                "N", "O", "P", "Q", "R", "S", "T", "U", "V", "W", "X", "Y", "Z" >>
LowerCase == << "a", "b", "c", "d", "e", "f", "g", "h", "i", "j", "k", "l", "m",
                "n", "o", "p", "q", "r", "s", "t", "u", "v", "w", "x", "y", "z" >>
\* the capital letters of the Latin-1 supplement and their small letters
LatinUpperCase ==
    << "U+00C0", "U+00C1", "U+00C2", "U+00C3", "U+00C4", "U+00C5", "U+00C6", "U+00C7",
       "U+00C8", "U+00C9", "U+00CA", "U+00CB", "U+00CC", "U+00CD", "U+00CE", "U+00CF",
       "U+00D0", "U+00D1", "U+00D2", "U+00D3", "U+00D4", "U+00D5", "U+00D6", "U+00D8",
       "U+00D9", "U+00DA", "U+00DB", "U+00DC", "U+00DD", "U+00DE" >>
LatinLowerCase ==
    << "U+00E0", "U+00E1", "U+00E2", "U+00E3", "U+00E4", "U+00E5", "U+00E6", "U+00E7",
       "U+00E8", "U+00E9", "U+00EA", "U+00EB", "U+00EC", "U+00ED", "U+00EE", "U+00EF",
       "U+00F0", "U+00F1", "U+00F2", "U+00F3", "U+00F4", "U+00F5", "U+00F6", "U+00F8",
       "U+00F9", "U+00FA", "U+00FB", "U+00FC", "U+00FD", "U+00FE" >>
\* the other alphanumeric characters of the Latin-1 supplement: the ordinal
\* indicators, the superscript digits, the micro sign, the fractions, the
\* sharp s and the y with diaeresis
LatinOtherWordChars ==
    { "U+00AA", "U+00B2", "U+00B3", "U+00B5", "U+00B9", "U+00BA", "U+00BC", "U+00BD",
      "U+00BE", "U+00DF", "U+00FF" }
AsciiDigits == << "0", "1", "2", "3", "4", "5", "6", "7", "8", "9" >>
ArabicIndicDigits ==
    << "U+0660", "U+0661", "U+0662", "U+0663", "U+0664", "U+0665", "U+0666", "U+0667",
       "U+0668", "U+0669" >>
DevanagariDigits ==
    << "U+0966", "U+0967", "U+0968", "U+0969", "U+096A", "U+096B", "U+096C", "U+096D",
       "U+096E", "U+096F" >>
FullwidthDigits ==
    << "U+FF10", "U+FF11", "U+FF12", "U+FF13", "U+FF14", "U+FF15", "U+FF16", "U+FF17",
       "U+FF18", "U+FF19" >>
\* the decimal digits of the alphabet, script by script, each from 0 to 9
DigitScripts == << AsciiDigits, ArabicIndicDigits, DevanagariDigits, FullwidthDigits >>
\* the letters outside Latin-1 whose lower() is not one character of their
\* own script: the dotted capital I, the Kelvin sign and the Angstrom sign
OtherCapitals == { "U+0130", "U+212A", "U+212B" }
\* the white space of str.isspace(), str.strip() and \s
Spaces ==
    { "\t", "\n", "U+000B", "\f", "\r", "U+001C", "U+001D", "U+001E", "U+001F", " ",
      "U+0085", "U+00A0", "U+1680", "U+2000", "U+2001", "U+2002", "U+2003", "U+2004",
      "U+2005", "U+2006", "U+2007", "U+2008", "U+2009", "U+200A", "U+2028", "U+2029",
      "U+202F", "U+205F", "U+3000" }

Range(f) == { f[i] : i \in DOMAIN f }

\* \d of the re module on str: a decimal digit of any script
IsDigit(c) == \E k \in DOMAIN DigitScripts : c \in Range(DigitScripts[k])
\* \s of the re module on str
IsSpace(c) == c \in Spaces
\* \w of the re module on str: alphanumeric or the underscore
IsWordChar(c) ==
    \/ IsDigit(c) \/ c = "_"
    \/ c \in Range(LowerCase) \/ c \in Range(UpperCase)
    \/ c \in Range(LatinLowerCase) \/ c \in Range(LatinUpperCase)
    \/ c \in LatinOtherWordChars \/ c \in OtherCapitals

\* str.lower() of one character, as a string: the dotted capital I lowers to
\* two characters, i and the combining dot U+0307
LowerChar(c) ==
    IF c \in Range(UpperCase)
    THEN << LowerCase[CHOOSE i \in DOMAIN UpperCase : UpperCase[i] = c] >>
    ELSE IF c \in Range(LatinUpperCase)
    THEN << LatinLowerCase[CHOOSE i \in DOMAIN LatinUpperCase : LatinUpperCase[i] = c] >>
    ELSE IF c = "U+212A" THEN <<"k">>
    ELSE IF c = "U+212B" THEN <<"U+00E5">>
    ELSE IF c = "U+0130" THEN <<"i", "U+0307">>
    ELSE <<c>>
\* str.lower()
RECURSIVE Lower(_)
Lower(s) == IF s = << >> THEN << >> ELSE LowerChar(s[1]) \o Lower(Tail(s))

\* s without the characters of the set at its two ends
StripChars(s, chars) ==
    LET keep == { i \in 1 .. Len(s) : s[i] \notin chars }
    IN  IF keep = {} THEN << >>
        ELSE LET lo == CHOOSE i \in keep : \A j \in keep : i <= j
                 hi == CHOOSE i \in keep : \A j \in keep : i >= j
             IN  SubSeq(s, lo, hi)
\* str.strip()
Strip(s) == StripChars(s, Spaces)
\* the white space float() drops at the ends of its argument: that of
\* str.strip() without the four separators U+001C .. U+001F
FloatStrip(s) == StripChars(s, Spaces \ {"U+001C", "U+001D", "U+001E", "U+001F"})

\* sub in s
Contains(s, sub) ==
    \E i \in 1 .. (Len(s) - Len(sub) + 1) : SubSeq(s, i, i + Len(sub) - 1) = sub

\* s[i..j] are all digits / all whitespace (true of an empty range)
AllDigits(s, i, j) == \A k \in i .. j : IsDigit(s[k])
AllSpaces(s, i, j) == \A k \in i .. j : IsSpace(s[k])

\* \b between s[i] and s[i+1], for i in 0 .. Len(s)
WordAt(s, i) == i \in 1 .. Len(s) /\ IsWordChar(s[i])
Boundary(s, i) == WordAt(s, i) # WordAt(s, i + 1)

\* s[i..j] matches \d+(?:\.\d+)?
IsNumber(s, i, j) ==
    /\ i <= j
    /\ \E k \in i .. j :
         /\ AllDigits(s, i, k)
         /\ \/ k = j
            \/ k + 2 <= j /\ s[k + 1] = "." /\ AllDigits(s, k + 2, j)

\* the first non-empty of a list of string fields: a or b or ... or ""
FirstNonEmpty(fields) ==
    IF \A i \in DOMAIN fields : fields[i] = << >> THEN << >>
    ELSE fields[CHOOSE i \in DOMAIN fields :
                    fields[i] # << >> /\ \A j \in 1 .. (i - 1) : fields[j] = << >>]

\* the text u sits at s[i .. i+Len(u)-1]
At(s, i, u) == i + Len(u) - 1 <= Len(s) /\ SubSeq(s, i, i + Len(u) - 1) = u

----------------------------------------------------------------------------
(* product_normalizer.py: the field parser *)

\* A JSON value of a payload: a number (a float), a string or null.
Num(f) == [t |-> "num", v |-> f, s |-> << >>]
Str(chars) == [t |-> "str", v |-> FZero(0), s |-> chars]
JNull == [t |-> "null", v |-> FZero(0), s |-> << >>]

\* Optional[float]: None, or a float
None == [ok |-> FALSE, v |-> FZero(0)]
Some(x) == [ok |-> TRUE, v |-> x]
\* Python truth of an Optional[float]: None, 0.0 and -0.0 are falsy
Truthy(o) == o.ok /\ ~FIsZero(o.v)

\* the value of a decimal digit of any script
DigitVal(c) ==
    (CHOOSE i \in 1 .. 10 : \E k \in DOMAIN DigitScripts : DigitScripts[k][i] = c) - 1

\* str.replace(",", ".")
CommaToDot(s) == [ i \in 1 .. Len(s) |-> IF s[i] = "," THEN "." ELSE s[i] ]

\* s is a digitpart of the float() grammar: digits, with single underscores
\* between digits
IsDigitPart(s) ==
    /\ s # << >>
    /\ \A i \in 1 .. Len(s) :
         \/ IsDigit(s[i])
         \/ s[i] = "_" /\ 1 < i /\ i < Len(s) /\ IsDigit(s[i - 1]) /\ IsDigit(s[i + 1])
\* the digits of a digitpart, as numbers
DigitsOf(s) ==
    [ i \in 1 .. Cardinality({ j \in 1 .. Len(s) : s[j] # "_" }) |->
        DigitVal(s[CHOOSE j \in 1 .. Len(s) :
                     s[j] # "_" /\ Cardinality({ k \in 1 .. j : s[k] # "_" }) = i]) ]

\* the exponent written with the digits ds; one of seven digits or more is
\* cut to 999999, which is past the float range in both directions
RECURSIVE DropZeros(_)
DropZeros(ds) == IF ds # << >> /\ ds[1] = 0 THEN DropZeros(Tail(ds)) ELSE ds
ExponentOf(ds) ==
    IF Len(DropZeros(ds)) > 6 THEN 999999 ELSE BToNat(BFromDigits(DropZeros(ds)))

\* s matches [sign] digitpart of an exponent
IsExponent(s) ==
    /\ s # << >>
    /\ IF s[1] \in {"+", "-"} THEN IsDigitPart(Tail(s)) ELSE IsDigitPart(s)
ExponentValue(s) ==
    IF s[1] = "-" THEN -ExponentOf(DigitsOf(Tail(s)))
    ELSE IF s[1] = "+" THEN ExponentOf(DigitsOf(Tail(s)))
    ELSE ExponentOf(DigitsOf(s))

\* the place of the decimal point of s, 0 when it has none
PointOf(s) ==
    IF \E i \in 1 .. Len(s) : s[i] = "." THEN CHOOSE i \in 1 .. Len(s) : s[i] = "." ELSE 0
\* s matches digitpart ["." [digitpart]] or "." digitpart; d is PointOf(s)
IsPointFloatAt(s, d) ==
    IF d = 0 THEN IsDigitPart(s)
    ELSE /\ Len(s) > 1
         /\ d = 1 \/ IsDigitPart(SubSeq(s, 1, d - 1))
         /\ d = Len(s) \/ IsDigitPart(SubSeq(s, d + 1, Len(s)))
IsPointFloat(s) == IsPointFloatAt(s, PointOf(s))
\* the digits before and after the point of such an s
IntDigitsAt(s, d) == IF d = 0 THEN DigitsOf(s) ELSE DigitsOf(SubSeq(s, 1, d - 1))
FracDigitsAt(s, d) == IF d = 0 THEN << >> ELSE DigitsOf(SubSeq(s, d + 1, Len(s)))

\* the finite float written with the digits int_digits "." frac_digits and
\* the exponent
DecimalDigitsFloat(sign, int_digits, frac_digits, exponent) ==
    FromDecimal(sign, BFromDigits(DropZeros(int_digits \o frac_digits)),
                exponent - Len(frac_digits))
DecimalFloat(sign, mantissa, exponent) ==
    DecimalDigitsFloat(sign, IntDigitsAt(mantissa, PointOf(mantissa)),
                       FracDigitsAt(mantissa, PointOf(mantissa)), exponent)

\* the text mantissa (e | E) exponent as a float, None if either part is
\* not well formed
ParseScientific(sign, mantissa, exponent) ==
    IF IsPointFloat(mantissa) /\ IsExponent(exponent)
    THEN Some(DecimalFloat(sign, mantissa, ExponentValue(exponent)))
    ELSE None
\* a number whose letters e and E are at the places es
ParseNumber(sign, body, es) ==
    IF es = {} THEN ParseScientific(sign, body, <<"0">>)
    ELSE IF Cardinality(es) > 1 THEN None
    ELSE ParseScientific(sign, SubSeq(body, 1, (CHOOSE i \in es : TRUE) - 1),
                         SubSeq(body, (CHOOSE i \in es : TRUE) + 1, Len(body)))
ParseUnsigned(sign, body) ==
    IF Lower(body) \in { <<"i", "n", "f">>, <<"i", "n", "f", "i", "n", "i", "t", "y">> }
    THEN Some(FInf(sign))
    ELSE IF Lower(body) = <<"n", "a", "n">> THEN Some(FNaN)
    ELSE ParseNumber(sign, body, { i \in 1 .. Len(body) : body[i] \in {"e", "E"} })

\* float(s) of a string without white space at its ends (str.strip() has run):
\* Some(value), and None where float() raises ValueError.  The grammar is
\* [sign] (inf | infinity | nan | pointfloat [(e | E) [sign] digitpart]) with
\* letters of either case and decimal digits of any script.
ParseFloat(s) ==
    IF s # << >> /\ s[1] \in {"+", "-"}
    THEN ParseUnsigned(IF s[1] = "-" THEN 1 ELSE 0, Tail(s))
    ELSE ParseUnsigned(0, s)

\* _to_float
ParseStripped(str) == IF str = << >> THEN None ELSE ParseFloat(str)
to_float(x) ==
    IF x.t = "null" THEN None
    ELSE IF x.t = "num" THEN Some(x.v)
    ELSE ParseStripped(CommaToDot(Strip(x.s)))

\* _clamp_nonneg: max(0.0, x), which is 0.0 for a NaN and for -0.0
clamp_nonneg(o) == IF ~o.ok THEN FZero(0) ELSE FMax(FZero(0), o.v)

\* _get_nutriment: the first key that is in the map and parses, clamped; else 0.0
ParsedValues(nutriments, keys) ==
    [ i \in DOMAIN keys |->
        IF keys[i] \in DOMAIN nutriments THEN to_float(nutriments[keys[i]]) ELSE None ]
FirstParsed(vals) ==
    IF \A i \in DOMAIN vals : ~vals[i].ok THEN None
    ELSE vals[CHOOSE i \in DOMAIN vals : vals[i].ok /\ \A j \in 1 .. (i - 1) : ~vals[j].ok]
get_nutriment(nutriments, keys) == clamp_nonneg(FirstParsed(ParsedValues(nutriments, keys)))

\* the unit alternations of the two serving-size patterns, in pattern order
ServingUnits == << <<"g">>, <<"g", "r">>, <<"g", "r", "a", "m">>, <<"g", "r", "a", "m", "s">>, <<"m", "l">>, <<"c", "l">>, <<"l">> >>
ParenServingUnits == << <<"g">>, <<"g", "r">>, <<"m", "l">>, <<"c", "l">>, <<"l">> >>

\* the quantity in g or ml: as it is for g, gr, gram, grams and ml, times 10.0
\* for cl and times 1000.0 for l
InUnit(qty, u) ==
    IF u = <<"c", "l">> THEN FMul(qty, FromInt(10))
    ELSE IF u = <<"l">> THEN FMul(qty, FromInt(1000))
    ELSE qty

\* s[i..d] is \d+ and s[d+1..j] is (?:\.\d+)? (empty when j = d)
NumberSplit(s, i, d, j) ==
    /\ i <= d /\ d <= j
    /\ AllDigits(s, i, d)
    /\ \/ j = d
       \/ d + 2 <= j /\ s[d + 1] = "." /\ AllDigits(s, d + 2, j)

\* The matches of a serving-size pattern in s, as <<i, d, j, k, n>>: the
\* number is s[i..j] with integer part s[i..d], whitespace runs to k, the unit
\* is units[n]; paren says whether the pattern is the parenthesised one.
ServingMatches(s, units, paren) ==
    { m \in (1 .. Len(s)) \X (1 .. Len(s)) \X (1 .. Len(s)) \X (1 .. Len(s)) \X DOMAIN units :
        LET i == m[1]  d == m[2]  j == m[3]  k == m[4]  u == units[m[5]]
        IN  /\ NumberSplit(s, i, d, j)
            /\ j <= k /\ AllSpaces(s, j + 1, k)
            /\ At(s, k + 1, u)
            /\ IF paren
               THEN /\ i > 1 /\ s[i - 1] = "("
                    /\ k + Len(u) + 1 <= Len(s) /\ s[k + Len(u) + 1] = ")"
               ELSE Boundary(s, k + Len(u)) }

\* The match re.search returns: the leftmost start, then the backtracking
\* order of the pattern (longest \d+, longest fraction, longest \s*, first
\* unit alternative).
Preferred(a, b) ==
    \/ a[1] < b[1]
    \/ a[1] = b[1] /\ a[2] > b[2]
    \/ a[1] = b[1] /\ a[2] = b[2] /\ a[3] > b[3]
    \/ a[1] = b[1] /\ a[2] = b[2] /\ a[3] = b[3] /\ a[4] > b[4]
    \/ a[1] = b[1] /\ a[2] = b[2] /\ a[3] = b[3] /\ a[4] = b[4] /\ a[5] <= b[5]
FirstMatch(ms) == CHOOSE a \in ms : \A b \in ms : Preferred(a, b)

\* lines 50-64: qty = _to_float(m.group(1)) in the unit of m.group(2)
QuantityInUnit(qty, u) == IF qty.ok THEN Some(InUnit(qty.v, u)) ELSE None
ServingQuantity(s, m, units) == QuantityInUnit(ParseFloat(SubSeq(s, m[1], m[3])), units[m[5]])

\* lines 45-49: the first pattern's match if it has one (m1), else the
\* second pattern's (m2), else None
FirstServing(s, m1, m2) ==
    IF m1 # {} THEN ServingQuantity(s, FirstMatch(m1), ServingUnits)
    ELSE IF m2 # {} THEN ServingQuantity(s, FirstMatch(m2), ParenServingUnits)
    ELSE None
SearchServing(s) ==
    FirstServing(s, ServingMatches(s, ServingUnits, FALSE),
                 ServingMatches(s, ParenServingUnits, TRUE))

\* _parse_serving_size_to_g_or_ml of a string (missing, None and "" are << >>)
parse_serving_size_to_g_or_ml(serving) ==
    IF serving = << >> THEN None ELSE SearchServing(Strip(Lower(serving)))

\* _parse_serving_size_to_g_or_ml of a JSON value: a number has no unit text
\* (a zero is falsy, any other number prints without a unit), so only a
\* string can resolve
parse_serving_value(x) ==
    IF x.t = "str" THEN parse_serving_size_to_g_or_ml(x.s) ELSE None

\* re.split(r"[;,]", txt), each part stripped, empty parts dropped
RECURSIVE SplitIngredients(_)
SplitIngredients(txt) ==
    LET seps == { i \in 1 .. Len(txt) : txt[i] \in {";", ","} }
    IN  IF seps = {} THEN (IF Strip(txt) = << >> THEN << >> ELSE << Strip(txt) >>)
        ELSE LET i == CHOOSE x \in seps : \A y \in seps : x <= y
                 head == Strip(SubSeq(txt, 1, i - 1))
                 rest == SplitIngredients(SubSeq(txt, i + 1, Len(txt)))
             IN  IF head = << >> THEN rest ELSE << head >> \o rest

IngredientObject(name) == [name |-> name, class |-> "U", note |-> "From OpenFoodFacts"]

\* _parse_ingredients_as_objects.  An entry of the structured list is a dict
\* with text and id (a plain string entry s behaves as {text: s}).
parse_ingredients_as_objects(off_product) ==
    LET ingredients == off_product.ingredients
        NameOf(ing) == Strip(FirstNonEmpty(<<ing.text, ing.id>>))
        named == SelectSeq(ingredients, LAMBDA ing : NameOf(ing) # << >>)
        txt == Strip(FirstNonEmpty(<<off_product.ingredients_text,
                                     off_product.ingredients_text_en>>))
        parts == SplitIngredients(txt)
    IN  IF ingredients # << >>
        THEN [ i \in 1 .. Len(named) |-> IngredientObject(NameOf(named[i])) ]
        ELSE [ i \in 1 .. Len(parts) |-> IngredientObject(parts[i]) ]

----------------------------------------------------------------------------
(* product_normalizer.py: beverage inference *)

BEVERAGE_POSITIVE ==
    << <<"e", "n", ":", "b", "e", "v", "e", "r", "a", "g", "e", "s">>,
       <<"e", "n", ":", "s", "o", "f", "t", "-", "d", "r", "i", "n", "k", "s">>,
       <<"e", "n", ":", "s", "o", "d", "a", "s">>,
       <<"e", "n", ":", "c", "a", "r", "b", "o", "n", "a", "t", "e", "d", "-", "d", "r", "i", "n", "k", "s">>,
       <<"e", "n", ":", "c", "a", "r", "b", "o", "n", "a", "t", "e", "d", "-", "s", "o", "f", "t", "-", "d", "r", "i", "n", "k", "s">>,
       <<"e", "n", ":", "c", "o", "l", "a", "s">>,
       <<"e", "n", ":", "c", "o", "l", "a">>,
       <<"e", "n", ":", "j", "u", "i", "c", "e", "s">>,
       <<"e", "n", ":", "f", "r", "u", "i", "t", "-", "j", "u", "i", "c", "e", "s">>,
       <<"e", "n", ":", "e", "n", "e", "r", "g", "y", "-", "d", "r", "i", "n", "k", "s">>,
       <<"e", "n", ":", "i", "c", "e", "d", "-", "t", "e", "a", "s">>,
       <<"e", "n", ":", "w", "a", "t", "e", "r", "s">>,
       <<"e", "n", ":", "f", "l", "a", "v", "o", "u", "r", "e", "d", "-", "w", "a", "t", "e", "r", "s">>,
       <<"e", "n", ":", "s", "p", "o", "r", "t", "s", "-", "d", "r", "i", "n", "k", "s">> >>

BEVERAGE_NEGATIVE ==
    << <<"e", "n", ":", "y", "o", "g", "u", "r", "t", "s">>,
       <<"e", "n", ":", "g", "r", "e", "e", "k", "-", "y", "o", "g", "u", "r", "t", "s">>,
       <<"e", "n", ":", "d", "a", "i", "r", "y", "-", "d", "e", "s", "s", "e", "r", "t", "s">>,
       <<"e", "n", ":", "c", "h", "e", "e", "s", "e", "s">>,
       <<"e", "n", ":", "m", "i", "l", "k">>,
       <<"e", "n", ":", "c", "r", "e", "a", "m">>,
       <<"e", "n", ":", "f", "e", "r", "m", "e", "n", "t", "e", "d", "-", "m", "i", "l", "k", "-", "p", "r", "o", "d", "u", "c", "t", "s">>,
       <<"e", "n", ":", "d", "e", "s", "s", "e", "r", "t", "s">>,
       <<"e", "n", ":", "s", "o", "u", "p", "s">>,
       <<"e", "n", ":", "s", "a", "u", "c", "e", "s">> >>

NAME_POSITIVE ==
    << <<"c", "o", "l", "a">>,
       <<"c", "o", "c", "a", "-", "c", "o", "l", "a">>,
       <<"s", "o", "f", "t", " ", "d", "r", "i", "n", "k">>,
       <<"s", "o", "d", "a">>,
       <<"c", "a", "r", "b", "o", "n", "a", "t", "e", "d">>,
       <<"s", "p", "a", "r", "k", "l", "i", "n", "g">>,
       <<"j", "u", "i", "c", "e">>,
       <<"e", "n", "e", "r", "g", "y", " ", "d", "r", "i", "n", "k">>,
       <<"i", "c", "e", "d", " ", "t", "e", "a">>,
       <<"w", "a", "t", "e", "r">> >>

NAME_NEGATIVE ==
    << <<"y", "o", "g", "u", "r", "t">>,
       <<"y", "o", "g", "h", "u", "r", "t">>,
       <<"j", "o", "g", "h", "u", "r", "t">>,
       <<"c", "r", "e", "a", "m">>,
       <<"c", "h", "e", "e", "s", "e">>,
       <<"s", "o", "u", "p">>,
       <<"s", "a", "u", "c", "e">>,
       <<"d", "e", "s", "s", "e", "r", "t">> >>

\* the unit alternation (ml|cl|l) of the two quantity patterns
VolumeUnits == << <<"m", "l">>, <<"c", "l">>, <<"l">> >>
\* the character class [x..] of the multi-pack sign in the first quantity
\* pattern: x and the two characters of a mis-decoded multiplication sign,
\* U+00C3 and U+2014.  (The quantity is lowered before the search, and
\* lower() turns U+00C3 into U+00E3, which the class does not hold.)
TimesChars == {"x", "U+00C3", "U+2014"}

\* re.search(r"\b(\d+(?:\.\d+)?)\s*(ml|cl|l)\b", q)
PlainVolume(q) ==
    \E i \in 1 .. Len(q) : \E j \in i .. Len(q) : \E k \in j .. Len(q) :
      \E u \in Range(VolumeUnits) :
        /\ Boundary(q, i - 1)
        /\ IsNumber(q, i, j)
        /\ AllSpaces(q, j + 1, k)
        /\ At(q, k + 1, u)
        /\ Boundary(q, k + Len(u))

\* re.search(r"\b(\d+)\s*[x..]\s*(\d+(?:\.\d+)?)\s*(ml|cl|l)\b", q)
MultiPackVolume(q) ==
    \E a \in 1 .. Len(q) : \E b \in a .. Len(q) : \E c \in b .. Len(q) :
      \E i \in (c + 2) .. Len(q) : \E j \in i .. Len(q) : \E k \in j .. Len(q) :
        \E u \in Range(VolumeUnits) :
          /\ Boundary(q, a - 1)
          /\ AllDigits(q, a, b)
          /\ AllSpaces(q, b + 1, c)
          /\ q[c + 1] \in TimesChars
          /\ AllSpaces(q, c + 2, i - 1)
          /\ IsNumber(q, i, j)
          /\ AllSpaces(q, j + 1, k)
          /\ At(q, k + 1, u)
          /\ Boundary(q, k + Len(u))

\* the conditions of the cascade, in the order the code tests them
DeclaredPer100ml(p) == Contains(Lower(p.nutrition_data_per), <<"1", "0", "0", "m", "l">>)
CatsLower(p) == { Lower(p.categories_tags[i]) : i \in DOMAIN p.categories_tags }
CategoryNegative(p) == \E neg \in Range(BEVERAGE_NEGATIVE) : neg \in CatsLower(p)
CategoryPositive(p) == \E pos \in Range(BEVERAGE_POSITIVE) : pos \in CatsLower(p)
QuantityVolume(p) ==
    LET quantity == Lower(p.quantity)
    IN  MultiPackVolume(quantity) \/ PlainVolume(quantity)
NameBrandText(p) ==
    LET name  == Lower(FirstNonEmpty(<<p.product_name, p.product_name_en, p.generic_name>>))
        brand == Lower(FirstNonEmpty(<<p.brands, p.brand_owner>>))
    IN  Strip(name \o <<" ">> \o brand)
NameNegative(p) ==
    LET text == NameBrandText(p)
    IN  text # << >> /\ \E n \in Range(NAME_NEGATIVE) : Contains(text, n)
NamePositive(p) ==
    LET text == NameBrandText(p)
    IN  text # << >> /\ \E n \in Range(NAME_POSITIVE) : Contains(text, n)

\* _infer_is_beverage raises TypeError at line 176 when categories_tags is a
\* number: `for c in cats` is reached unless the per-100ml rule has returned
InferRaises(p) == ~DeclaredPer100ml(p) /\ p.categories_tags_type = "int"

\* _infer_is_beverage: (is_beverage, is_inferred, reason), or the exception
\* raised
InferPositiveCategoryFirst(p) ==
    IF DeclaredPer100ml(p) THEN <<TRUE, FALSE, "nutrition_data_per=100ml">>
    ELSE IF p.categories_tags_type = "int" THEN Raise("TypeError")
    ELSE IF CategoryPositive(p) THEN <<TRUE, FALSE, "categories_positive">>
    ELSE IF CategoryNegative(p) THEN <<FALSE, FALSE, "categories_negative">>
    ELSE IF QuantityVolume(p) THEN <<TRUE, TRUE, "quantity_ml_l">>
    ELSE IF NameNegative(p) THEN <<FALSE, TRUE, "name_negative">>
    ELSE IF NamePositive(p) THEN <<TRUE, TRUE, "name_positive">>
    ELSE <<FALSE, TRUE, "default_solid">>
InferNameReasonsSwapped(p) ==
    IF DeclaredPer100ml(p) THEN <<TRUE, FALSE, "nutrition_data_per=100ml">>
    ELSE IF p.categories_tags_type = "int" THEN Raise("TypeError")
    ELSE IF CategoryNegative(p) THEN <<FALSE, FALSE, "categories_negative">>
    ELSE IF CategoryPositive(p) THEN <<TRUE, FALSE, "categories_positive">>
    ELSE IF QuantityVolume(p) THEN <<TRUE, TRUE, "quantity_ml_l">>
    ELSE IF NameNegative(p) THEN <<FALSE, TRUE, "name_positive">>
    ELSE IF NamePositive(p) THEN <<TRUE, TRUE, "name_negative">>
    ELSE <<FALSE, TRUE, "default_solid">>
infer_is_beverage(p) ==
    IF DeclaredPer100ml(p) THEN <<TRUE, FALSE, "nutrition_data_per=100ml">>
    ELSE IF p.categories_tags_type = "int" THEN Raise("TypeError")
    ELSE IF CategoryNegative(p) THEN <<FALSE, FALSE, "categories_negative">>
    ELSE IF CategoryPositive(p) THEN <<TRUE, FALSE, "categories_positive">>
    ELSE IF QuantityVolume(p) THEN <<TRUE, TRUE, "quantity_ml_l">>
    ELSE IF NameNegative(p) THEN <<FALSE, TRUE, "name_negative">>
    ELSE IF NamePositive(p) THEN <<TRUE, TRUE, "name_positive">>
    ELSE <<FALSE, TRUE, "default_solid">>

----------------------------------------------------------------------------
(* product_normalizer.py: the normalizer *)

\* An OpenFoodFacts payload is [status, product_kind, product, top]: status is
\* str(payload.get("status")) ("1", "0", "None"), product_kind says whether
\* payload["product"] is missing/None ("none"), a dict ("dict") or another
\* value ("other"), product is that dict and top holds the product fields
\* found at the top level of the payload itself.  A product is a record of the
\* fields the normalizer reads, a text field that is absent, null or empty
\* being << >>.  nutriments_type is the JSON type of off_product["nutriments"]
\* when it is truthy ("dict", "list", "int"): nutriments maps the keys of a
\* dict to their JSON values and nutriments_list holds the elements of a list
\* that are strings (no other element is equal to a key that is looked up).
\* categories_tags_type is the JSON type of a truthy categories_tags ("list",
\* "int").

\* the default 100.0 g serving of a solid
DefaultServingSolid == FromInt(100)
\* the default 330.0 ml serving of a beverage
DefaultServingBeverage == FromInt(330)

UnknownProduct == <<"U", "n", "k", "n", "o", "w", "n", " ", "P", "r", "o", "d", "u", "c", "t">>

\* the keys the four _get_nutriment calls of lines 224-233 look up, in order
SugarKeys == <<"sugars_100g", "sugar_100g", "sugars", "sugar">>
SaltKeys == <<"salt_100g", "salt">>
SatFatKeys == <<"saturated-fat_100g", "saturated_fat_100g", "saturated-fat", "saturated_fat">>
ProteinKeys == <<"proteins_100g", "protein_100g", "proteins", "protein">>

\* The exception _get_nutriment raises for the nutriments of off_product, ""
\* when it returns: `k in nutriments` (line 30) raises TypeError on a number;
\* on a list it is a membership test, and nutriments.get (line 31) raises
\* AttributeError for the first key that is an element of the list.
nutriment_exception(off_product, keys) ==
    IF off_product.nutriments_type = "int" THEN "TypeError"
    ELSE IF /\ off_product.nutriments_type = "list"
            /\ \E i \in DOMAIN keys : keys[i] \in Range(off_product.nutriments_list)
    THEN "AttributeError"
    ELSE ""

\* The exception normalize_openfoodfacts raises on a product, "" when it
\* returns, in the order the code reaches them: the four _get_nutriment calls
\* (lines 224-233), the iteration over categories_tags in _infer_is_beverage
\* (line 176), and nutriments.get("serving_size") on a list (line 242),
\* evaluated when the product-level serving size is falsy.
normalize_exception(off_product) ==
    IF nutriment_exception(off_product, SugarKeys \o SaltKeys \o SatFatKeys \o ProteinKeys) # ""
    THEN nutriment_exception(off_product, SugarKeys \o SaltKeys \o SatFatKeys \o ProteinKeys)
    ELSE IF InferRaises(off_product) THEN "TypeError"
    ELSE IF /\ off_product.nutriments_type = "list"
            /\ ~Truthy(parse_serving_size_to_g_or_ml(off_product.serving_size))
    THEN "AttributeError"
    ELSE ""

\* lines 241-244: a or b of the two parsed serving fields: a when it is
\* truthy (neither None nor a zero), else b
ResolveServing(s1, s2) == IF Truthy(s1) THEN s1 ELSE s2
\* _parse_serving_size_to_g_or_ml(nutriments.get("serving_size"))
NutrimentServingOf(nutriments) ==
    IF "serving_size" \in DOMAIN nutriments
    THEN parse_serving_value(nutriments["serving_size"]) ELSE None

\* lines 224-233: the four nutrients read from nutriments
nutriment_values(nutriments) ==
    [ sugar |-> get_nutriment(nutriments, SugarKeys),
      salt |-> get_nutriment(nutriments, SaltKeys),
      sat_fat |-> get_nutriment(nutriments, SatFatKeys),
      protein |-> get_nutriment(nutriments, ProteinKeys) ]

\* lines 258-276: the returned dict, for the four nutrients read, the inferred
\* beverage triple bev and the resolved serving size parsed
normalized_product(off_product, nutrients, barcode, bev, parsed) ==
    [ off_code |-> IF barcode # << >> THEN barcode ELSE off_product.code,
      name |-> FirstNonEmpty(<<off_product.product_name, off_product.product_name_en,
                               off_product.generic_name, UnknownProduct>>),
      brand |-> FirstNonEmpty(<<off_product.brands, off_product.brand_owner>>),
      image_url |-> FirstNonEmpty(<<off_product.image_url, off_product.image_front_url>>),
      is_beverage |-> bev[1],
      is_beverage_inferred |-> bev[2],
      beverage_inference_reason |-> bev[3],
      serving_size_inferred |-> ~parsed.ok,
      ingredients |-> parse_ingredients_as_objects(off_product),
      nutrition_per_100 |->
        [ unit |-> IF bev[1] THEN "ml" ELSE "g",
          sugar_g |-> nutrients.sugar,
          salt_g |-> nutrients.salt,
          sat_fat_g |-> nutrients.sat_fat,
          protein_g |-> nutrients.protein,
          serving_size |-> IF parsed.ok THEN parsed.v
                           ELSE IF bev[1] THEN DefaultServingBeverage
                           ELSE DefaultServingSolid ] ]
\* lines 222-276 for the product chosen at line 221: the exception of the
\* first statement that raises, else the returned dict
normalize_or_raise(exception, off_product, barcode) ==
    IF exception # "" THEN Raise(exception)
    ELSE normalized_product(off_product, nutriment_values(off_product.nutriments), barcode,
                            infer_is_beverage(off_product),
                            ResolveServing(parse_serving_size_to_g_or_ml(off_product.serving_size),
                                           NutrimentServingOf(off_product.nutriments)))
normalize_product(off_product, barcode) ==
    normalize_or_raise(normalize_exception(off_product), off_product, barcode)
\* normalize_openfoodfacts
normalize_openfoodfacts(off_payload, barcode) ==
    normalize_product(IF off_payload.product_kind = "dict"
                      THEN off_payload.product ELSE off_payload.top, barcode)

----------------------------------------------------------------------------
(* scanner_service.py: the explanation tips and scan_product's two branches *)

\* The tips list of _why_this_score; each tip is a tuple naming its fixed
\* text, the beverage-reason tip also carrying the reason it cites.  The
\* why_this_score lines and who_impact are display text computed from the
\* same profile and are left out of the result.
why_this_score_tips(nutrition_per_100, quality) ==
    LET is_bev == quality.is_beverage
        sugar_100 == GetNum(nutrition_per_100, "sugar_g")
        sat_100 == GetNum(nutrition_per_100, "sat_fat_g")
        reason == quality.beverage_inference_reason
    IN  (IF quality.serving_size_inferred THEN << <<"serving_size_inferred">> >> ELSE << >>)
        \o (IF reason # "" THEN << <<"beverage_detection_reason", reason>> >> ELSE << >>)
        \o (IF is_bev /\ FGe(sugar_100, FromInt(5))
            THEN << <<"tip_beverage_sugar">> >> ELSE << >>)
        \o (IF ~is_bev /\ FGe(sat_100, FromInt(5))
            THEN << <<"tip_solid_sat_fat">> >> ELSE << >>)

\* A local catalog record is a function from the keys it holds to their
\* values: nutrients maps sugar/salt/fat/protein to JSON values, serving_size
\* is a JSON value, is_beverage a boolean, ingredients a list, name and brand
\* strings.  The empty record {} is << >>.
LocalGet(product, key, default) == IF key \in DOMAIN product THEN product[key] ELSE default

\* float(x or default) for a JSON value x of a local record: a number, null
\* or a string.  A zero, null and "" are falsy and give the default; any
\* other string goes to float(), which strips it and raises ValueError (None
\* here) unless it is written as a float.
LocalFloat(x, default) ==
    IF x.t = "num" THEN Some(IF FIsZero(x.v) THEN default ELSE x.v)
    ELSE IF x.t = "null" \/ x.s = << >> THEN Some(default)
    ELSE ParseFloat(FloatStrip(x.s))

\* float(nutrients.get(key, 0) or 0)
LocalNum(nutrients, key) ==
    IF key \in DOMAIN nutrients THEN LocalFloat(nutrients[key], FZero(0)).v ELSE FZero(0)

\* float(product.get("serving_size", 1.0) or 1.0)
LocalServing(product) ==
    IF "serving_size" \in DOMAIN product
    THEN LocalFloat(product["serving_size"], FromInt(1)).v
    ELSE FromInt(1)

\* the LOCAL branch raises before it scores: one of the float() conversions
\* of lines 294-298 is handed a string that is not a number
LocalRaises(product) ==
    \/ \E key \in {"sugar", "salt", "fat", "protein"} :
          /\ key \in DOMAIN LocalGet(product, "nutrients", << >>)
          /\ ~LocalFloat(LocalGet(product, "nutrients", << >>)[key], FZero(0)).ok
    \/ /\ "serving_size" \in DOMAIN product
       /\ ~LocalFloat(product["serving_size"], FromInt(1)).ok

\* scan_product, the LOCAL branch from the profile on: score, data quality
\* and the returned dict, or the exception of the scoring engine
local_result(pid, product, nutrition_per_100, ingredients, quality, rasff_alerts, v) ==
    IF Raised(v) THEN v ELSE
        [ source |-> "local",
          matched_by |-> "local_id",
          product_id |-> pid,
          name |-> LocalGet(product, "name", UnknownProduct),
          brand |-> LocalGet(product, "brand", << >>),
          image_url |-> LocalGet(product, "image_url", << >>),
          alerts |-> rasff_alerts,
          ingredients |-> ingredients,
          nutrition_per_100 |-> nutrition_per_100,
          vitascore |-> v.score,
          vitascore_breakdown |-> v.breakdown,
          data_quality |-> quality,
          tips |-> why_this_score_tips(nutrition_per_100, quality) ]

\* the profile the LOCAL branch builds from a catalog record
local_profile(product, nutrients, is_beverage) ==
    [ unit |-> IF is_beverage THEN "ml" ELSE "g",
      sugar_g |-> LocalNum(nutrients, "sugar"),
      salt_g |-> LocalNum(nutrients, "salt"),
      sat_fat_g |-> LocalNum(nutrients, "fat"),
      protein_g |-> LocalNum(nutrients, "protein"),
      serving_size |-> LocalServing(product) ]

local_scored(pid, product, nutrition_per_100, is_beverage, ingredients, rasff_alerts) ==
    local_result(pid, product, nutrition_per_100, ingredients,
                 build_data_quality("local", nutrition_per_100, ingredients,
                                    FALSE, FALSE, is_beverage, "local_flag"),
                 rasff_alerts, v3_hybrid_score(nutrition_per_100, is_beverage))

\* scan_product, the LOCAL branch: the returned dict
scan_local(pid, product, rasff_alerts) ==
    IF LocalRaises(product) THEN Raise("ValueError")
    ELSE local_scored(pid, product,
                      local_profile(product, LocalGet(product, "nutrients", << >>),
                                    LocalGet(product, "is_beverage", FALSE)),
                      LocalGet(product, "is_beverage", FALSE),
                      LocalGet(product, "ingredients", << >>),
                      rasff_alerts)

\* scan_product, the OFF branch from the normalized product on: score and the
\* returned dict, or the exception of the scoring engine
remote_result(pid, normalized, quality, rasff_alerts, v) ==
    IF Raised(v) THEN v ELSE
        [ source |-> "openfoodfacts",
          matched_by |-> "barcode_or_key",
          off_code |-> IF normalized.off_code # << >> THEN normalized.off_code ELSE pid,
          name |-> normalized.name,
          brand |-> normalized.brand,
          image_url |-> normalized.image_url,
          alerts |-> rasff_alerts,
          ingredients |-> normalized.ingredients,
          nutrition_per_100 |-> normalized.nutrition_per_100,
          vitascore |-> v.score,
          vitascore_breakdown |-> v.breakdown,
          data_quality |-> quality,
          tips |-> why_this_score_tips(normalized.nutrition_per_100, quality) ]

\* the data quality the OFF branch builds for a normalized product
remote_quality(normalized) ==
    build_data_quality("openfoodfacts", normalized.nutrition_per_100, normalized.ingredients,
                       normalized.serving_size_inferred, normalized.is_beverage_inferred,
                       normalized.is_beverage, normalized.beverage_inference_reason)

remote_scored(pid, normalized, rasff_alerts) ==
    remote_result(pid, normalized, remote_quality(normalized), rasff_alerts,
                  v3_hybrid_score(normalized.nutrition_per_100, normalized.is_beverage))

\* scan_product, the OFF branch after a successful fetch, lines 337-374: the
\* exception of normalize_openfoodfacts, else the returned dict
remote_or_raise(pid, normalized, rasff_alerts) ==
    IF Raised(normalized) THEN normalized ELSE remote_scored(pid, normalized, rasff_alerts)
scan_remote(pid, payload, rasff_alerts) ==
    remote_or_raise(pid, normalize_openfoodfacts(payload, pid), rasff_alerts)

\* the "not found" dict
NotFound == [error |-> "Product not found"]

----------------------------------------------------------------------------
(* openfoodfacts_service.py: the provider client *)

\* 10 * 60 seconds
CACHE_TTL_SEC == 600

\* OFFResult
OFFResult(ok, status, payload) == [ok |-> ok, payload |-> payload, status |-> status]

\* An empty payload dict {}: no status, no product, nothing at the top level.
EmptyProduct ==
    [ nutriments |-> << >>, nutriments_type |-> "dict", nutriments_list |-> << >>,
      nutrition_data_per |-> << >>, categories_tags |-> << >>, categories_tags_type |-> "list",
      quantity |-> << >>, serving_size |-> << >>, product_name |-> << >>,
      product_name_en |-> << >>, generic_name |-> << >>, brands |-> << >>,
      brand_owner |-> << >>, ingredients |-> << >>, ingredients_text |-> << >>,
      ingredients_text_en |-> << >>, code |-> << >>, image_url |-> << >>,
      image_front_url |-> << >> ]
EmptyPayload ==
    [product_kind |-> "none", product |-> EmptyProduct, top |-> EmptyProduct, status |-> "None"]

\* bool(payload) for the payload of an OFFResult: a dict with any key
PayloadTruthy(payload) == payload # EmptyPayload

\* str(data.get("status")) != "1" and data.get("product") is None
ClassifiedNotFound(data) == data.status # "1" /\ data.product_kind = "none"

\* fetch_off_product after the GET: the OFFResult for an outcome of the
\* request, or the exception raised.  An outcome is [kind, status_code,
\* json_ok, json_type, data]: kind "timeout" (httpx.TimeoutException),
\* "request_error" (any other exception) or "response"; json_ok says whether
\* r.json() parses and json_type what it parses to ("dict", "list", "null");
\* data is the parsed dict.  Line 92 calls data.get outside any try, which
\* raises AttributeError when the body is not a JSON object.
fetch_result(outcome) ==
    IF outcome.kind = "timeout" THEN OFFResult(FALSE, 504, EmptyPayload)
    ELSE IF outcome.kind = "request_error" THEN OFFResult(FALSE, 502, EmptyPayload)
    ELSE IF outcome.status_code # 200 THEN OFFResult(FALSE, outcome.status_code, EmptyPayload)
    ELSE IF ~outcome.json_ok THEN OFFResult(FALSE, 502, EmptyPayload)
    ELSE IF outcome.json_type # "dict" THEN Raise("AttributeError")
    ELSE IF ClassifiedNotFound(outcome.data) THEN OFFResult(FALSE, 404, EmptyPayload)
    ELSE OFFResult(TRUE, 200, outcome.data)

\* scan_product after the await of fetch_off_product: off is the OFFResult
\* returned, or the exception that left fetch_off_product and leaves
\* scan_product too
scan_after_fetch(pid, off, rasff_alerts) ==
    IF Raised(off) THEN off
    ELSE IF off.ok /\ PayloadTruthy(off.payload)
    THEN scan_remote(pid, off.payload, rasff_alerts)
    ELSE NotFound

----------------------------------------------------------------------------
(* The scoring engine applied to a bounded set of profiles *)

\* The pipeline's variables while a single function is under check
ScanIdle ==
    /\ products_db = << >> /\ rasff_db = << >> /\ cache = << >> /\ now = 0
    /\ task_pc = << >> /\ task_pid = << >> /\ task_alerts = << >> /\ task_product = << >>
    /\ task_outcome = << >> /\ task_off = << >> /\ task_result = << >>


\* Fractional values up to MaxTenths/10 g are in every nutrient's domain:
\* they give penalties that are not whole numbers, and rounding ties.
MaxTenths == 1

\* the floats (from + t)/10 for t in 0 .. n
Tenths(from, n) == { Dec(from + t, -1) : t \in 0 .. n }

SugarVals   == Tenths(0, MaxTenths) \cup { Dec(-10, -1), Dec(30, -1), Dec(60, -1), Dec(390, -1) }
SaltVals    == Tenths(0, MaxTenths) \cup { Dec(5, -1) }
SatFatVals  == Tenths(0, MaxTenths) \cup { Dec(10, -1) }
ProteinVals == Tenths(30, MaxTenths) \cup { Dec(0, -1), Dec(100, -1), Dec(120, -1) }
ServingVals == { Dec(-10, -1), Dec(0, -1), Dec(10, -1), Dec(2000, -1), Dec(3300, -1),
                 Dec(5000, -1) }

\* the profile with the given values, in tenths
Profile(sugar, salt, sat_fat, protein, serving) ==
    [ sugar_g |-> Dec(sugar, -1), salt_g |-> Dec(salt, -1), sat_fat_g |-> Dec(sat_fat, -1),
      protein_g |-> Dec(protein, -1), serving_size |-> Dec(serving, -1) ]

\* profiles at which binary rounding decides: 100 - 74.2 + 5.7 is
\* 31.499999999999993 and not 31.5; 0.026 * 500 - 12.5 is 0.5000000000000018
\* and not 0.5; 13.5 + 1.0000000000000018 rounds to 15; 0.167 * 30 is
\* 5.01 and the raw score 4.5 or just above it
TieProfiles ==
    { Profile(60, 23, 53, 87, 10), Profile(26, 0, 0, 0, 5000), Profile(27, 0, 0, 0, 5000),
      Profile(167, 4, 24, 46, 300) }

\* values far from the grid: a sugar value of 1e8, one whose penalty leaves
\* the float range, an infinity and a NaN as sugar or as serving size
ExtremeProfiles ==
    { [Profile(0, 0, 0, 0, 1000) EXCEPT !.sugar_g = x] :
        x \in {Dec(1, 8), Dec(1, 308), FInf(0), FNaN} }
    \cup { [Profile(1, 0, 0, 0, 1000) EXCEPT !.serving_size = x] : x \in {FInf(0), FNaN} }

ScoreProfiles ==
    [ sugar_g : SugarVals, salt_g : SaltVals, sat_fat_g : SatFatVals,
      protein_g : ProteinVals, serving_size : ServingVals ]
    \cup TieProfiles \cup ExtremeProfiles

ScoreInit ==
    /\ ScanIdle
    /\ pc = "call"
    /\ arg \in [ nutrition_per_100 : ScoreProfiles, is_beverage : BOOLEAN ]
    /\ ret = <<>>

V3HybridScore ==
    /\ pc = "call"
    /\ ret' = v3_hybrid_score(arg.nutrition_per_100, arg.is_beverage)
    /\ pc' = "return"
    /\ UNCHANGED arg
    /\ UNCHANGED scanvars

ScoreNext == V3HybridScore

SpecScore == ScoreInit /\ [][ScoreNext]_vars

\* The profile's four nutrient values are non-negative (x >= 0 in Python: an
\* infinity is, a NaN is not).
NonNegNutrients(n) ==
    /\ FGe(n.sugar_g, FZero(0)) /\ FGe(n.salt_g, FZero(0))
    /\ FGe(n.sat_fat_g, FZero(0)) /\ FGe(n.protein_g, FZero(0))

\* C1: for every profile with non-negative nutrient values (any serving
\* size, beverage or solid) the scoring engine returns a score that is an
\* integer in 0..100, and the breakdown's final_score is that score.
C1_ScoreClamped ==
    (pc = "return" /\ NonNegNutrients(arg.nutrition_per_100)) =>
        /\ ~Raised(ret)
        /\ ret.score \in 0 .. 100
        /\ ret.breakdown.final_score = ret.score

\* C2: the reported total_penalty is the exact sum of the four
\* reported penalty components.
C2_TotalIsSumOfReported ==
    (pc = "return" /\ ~Raised(ret)) =>
        ret.breakdown.total_penalty =
            ret.breakdown.penalty_sugar + ret.breakdown.penalty_salt
            + ret.breakdown.penalty_sat_fat + ret.breakdown.penalty_serving_sugar

\* The reference formula of C3, evaluated in floats from left to right and
\* rounded once at the end:
\* clamp(round(100 - (sugar*w + salt*10 + sat_fat*4
\*                    + min(20, max(0, sugar/100*serving - 12.5))) + bonus))
RefBonus(protein, is_beverage) ==
    IF is_beverage THEN FZero(0)
    ELSE FMin(FromInt(8), FMax(FZero(0), FSub(protein, FromInt(3))))
RefServingPenalty(sugar, serving) ==
    FMin(FromInt(20),
         FMax(FZero(0), FSub(FMul(FDivInt(sugar, 100), serving), Dec(125, -1))))
RefPenalties(n, is_beverage) ==
    FAdd(FAdd(FAdd(FMul(n.sugar_g, FromInt(IF is_beverage THEN 6 ELSE 5)),
                   FMul(n.salt_g, FromInt(10))),
              FMul(n.sat_fat_g, FromInt(4))),
         RefServingPenalty(n.sugar_g, n.serving_size))
RefScore(n, is_beverage) ==
    Max(0, Min(100, FRoundInt(FAdd(FSub(FromInt(100), RefPenalties(n, is_beverage)),
                                   RefBonus(n.protein_g, is_beverage)))))

ScenarioA ==
    /\ arg.nutrition_per_100 = Profile(60, 5, 10, 100, 2000)
    /\ arg.is_beverage = FALSE
ScenarioB ==
    /\ arg.nutrition_per_100.sugar_g = Dec(390, -1)
    /\ arg.nutrition_per_100.serving_size = Dec(3300, -1)
    /\ arg.is_beverage = TRUE

\* the largest nutrient value at which no penalty leaves the float range
MaxFinite == Dec(1, 300)
\* The profile's four nutrient values are at most 1e300.
InFloatRange(n) ==
    /\ FLe(n.sugar_g, MaxFinite) /\ FLe(n.salt_g, MaxFinite)
    /\ FLe(n.sat_fat_g, MaxFinite) /\ FLe(n.protein_g, MaxFinite)

\* the profile under check has non-negative nutrients within the float range
\* and a positive, finite serving size
PositiveProfile ==
    /\ NonNegNutrients(arg.nutrition_per_100)
    /\ InFloatRange(arg.nutrition_per_100)
    /\ FGt(arg.nutrition_per_100.serving_size, FZero(0))
    /\ arg.nutrition_per_100.serving_size.k = "fin"

\* C3: for non-negative nutrient values and a positive serving size the score
\* is the reference formula (weights 6/5, 10, 4; serving penalty
\* min(20, max(0, sugar/100*serving - 12.5)); bonus min(8, max(0, protein - 3))
\* for a solid and 0 for a beverage), rounded once; scenario A scores 68 with
\* total_penalty 39 and bonus 7, scenario B scores 0.
C3_ScoreIsReference ==
    (pc = "return" /\ PositiveProfile) =>
        /\ ~Raised(ret)
        /\ ret.score = RefScore(arg.nutrition_per_100, arg.is_beverage)
        /\ ScenarioA => /\ ret.score = 68
                        /\ ret.breakdown.total_penalty = 39
                        /\ ret.breakdown.bonus_protein = 7
        /\ ScenarioB => ret.score = 0

\* C3 witness: scenario A has been scored.
C3_Witness == pc = "return" /\ ScenarioA /\ ~Raised(ret) /\ ret.score = 68

\* the values a penalized nutrient takes on the grid of profiles under check
PenalizedVals(key) ==
    IF key = "sugar_g" THEN SugarVals ELSE IF key = "salt_g" THEN SaltVals ELSE SatFatVals

\* the values of the set above x
Above(vals, x) == { v \in vals : FGt(v, x) }
\* the least value of the set above x; x itself when there is none
NextAbove(vals, x) ==
    IF Above(vals, x) = {} THEN x
    ELSE CHOOSE v \in Above(vals, x) : \A w \in Above(vals, x) : FLe(v, w)

\* the profile with the value under the key raised to the next one of the grid
RaisedProfile(n, key) == [n EXCEPT ![key] = NextAbove(PenalizedVals(key), n[key])]

\* C16: for a profile with non-negative nutrients and a positive serving
\* size, the score as a beverage is never higher than the score of the same
\* profile as a solid, and raising sugar, salt or saturated fat with the
\* other inputs fixed never raises the score.  Every profile is compared
\* with the one whose value is the next higher one of the grid; a chain of
\* such steps leads from a value to every higher one.
C16_StricterAndMonotone ==
    (pc = "return" /\ PositiveProfile) =>
        /\ arg.is_beverage =>
              ret.score <= v3_hybrid_score(arg.nutrition_per_100, FALSE).score
        /\ \A key \in {"sugar_g", "salt_g", "sat_fat_g"} :
             RaisedProfile(arg.nutrition_per_100, key) # arg.nutrition_per_100
             => v3_hybrid_score(RaisedProfile(arg.nutrition_per_100, key),
                                arg.is_beverage).score <= ret.score

\* C16 witness: a beverage scored strictly below the same profile as a solid
\* and strictly above the same profile with more sugar
C16_Witness ==
    /\ pc = "return" /\ PositiveProfile /\ arg.is_beverage
    /\ ret.score < v3_hybrid_score(arg.nutrition_per_100, FALSE).score
    /\ \E higher \in SugarVals :
         /\ FGt(higher, arg.nutrition_per_100.sugar_g)
         /\ v3_hybrid_score([arg.nutrition_per_100 EXCEPT !.sugar_g = higher], TRUE).score
              < ret.score

----------------------------------------------------------------------------
(* The beverage classifier applied to a bounded set of products *)

\* categories_tags holds up to MaxTags tags
MaxTags == 2

SeqsUpTo(S, n) == UNION { [1 .. m -> S] : m \in 0 .. n }

PerVals == { <<>>,
      <<"1", "0", "0", "g">>,
      <<"1", "0", "0", "M", "L">> }
\* a positive tag, a negative one (en:MILK written with the Kelvin sign) and
\* one that is in neither table
TagVals == { <<"e", "n", ":", "s", "o", "d", "a", "s">>,
      <<"e", "n", ":", "M", "I", "L", "U+212A">>,
      <<"e", "n", ":", "s", "n", "a", "c", "k", "s">> }
\* 330 ml written with a no-break space, a multi-pack, a text whose unit runs
\* into a letter (U+00E9), and litres
QuantityVals == { <<>>,
      <<"3", "3", "0", "U+00A0", "m", "l">>,
      <<"6", "x", "3", "3", "0", "m", "l">>,
      <<"3", "3", "0", " ", "m", "l", "U+00E9">>,
      <<"1", ".", "5", " ", "L">> }
\* SPARKLING is written with the Kelvin sign
NameVals == { <<>>,
      <<"S", "P", "A", "R", "U+212A", "L", "I", "N", "G">>,
      <<"y", "o", "g", "u", "r", "t">>,
      <<"c", "r", "e", "a", "m", " ", "s", "o", "d", "a">>,
      <<"b", "r", "e", "a", "d">> }
NameEnVals == { <<>>,
      <<"s", "o", "u", "p">> }
BrandVals == { <<>>,
      <<"j", "u", "i", "c", "e">> }
BrandOwnerVals == { <<>>,
      <<"w", "a", "t", "e", "r">> }

ClassifyInit ==
    /\ ScanIdle
    /\ pc = "call"
    /\ arg \in
         [ off_product :
             [ nutrition_data_per : PerVals,
               categories_tags : SeqsUpTo(TagVals, MaxTags),
               categories_tags_type : {"list"},
               quantity : QuantityVals,
               product_name : NameVals,
               product_name_en : NameEnVals,
               generic_name : {<< >>},
               brands : BrandVals,
               brand_owner : BrandOwnerVals ] ]
    /\ ret = << >>

\* pc is "raised" when an exception left the call
InferIsBeverage ==
    /\ pc = "call"
    /\ ret' = infer_is_beverage(arg.off_product)
    /\ pc' = IF InferRaises(arg.off_product) THEN "raised" ELSE "return"
    /\ UNCHANGED arg
    /\ UNCHANGED scanvars

ClassifyNext == InferIsBeverage

SpecClassify == ClassifyInit /\ [][ClassifyNext]_vars

\* The seven rules of the cascade as the specification numbers them: the
\* signal of each rule, and the is_beverage outcome of each rule.
RuleSignal(k, p) ==
    CASE k = 1 -> DeclaredPer100ml(p)
      [] k = 2 -> CategoryNegative(p)
      [] k = 3 -> CategoryPositive(p)
      [] k = 4 -> QuantityVolume(p)
      [] k = 5 -> NameNegative(p)
      [] k = 6 -> NamePositive(p)
      [] k = 7 -> TRUE
RuleIsBeverage == <<TRUE, FALSE, TRUE, TRUE, FALSE, TRUE, FALSE>>
\* the lowest-numbered rule whose signal holds
DecidingRule(p) ==
    CHOOSE k \in 1 .. 7 : RuleSignal(k, p) /\ \A j \in 1 .. (k - 1) : ~RuleSignal(j, p)

\* C4: is_beverage is the outcome of the lowest-numbered rule whose signal
\* holds; a per-100ml declaration gives beverage/not-inferred whatever the
\* tags, a negative tag beats a positive one, a volume quantity beats any name
\* keyword, a negative name keyword beats a positive one.
C4_FirstMatchWins ==
    pc = "return" =>
        LET p == arg.off_product
        IN  /\ ret[1] = RuleIsBeverage[DecidingRule(p)]
            /\ DeclaredPer100ml(p) => (ret[1] = TRUE /\ ret[2] = FALSE)
            /\ (~DeclaredPer100ml(p) /\ CategoryNegative(p) /\ CategoryPositive(p))
                 => ret[1] = FALSE
            /\ (/\ ~DeclaredPer100ml(p) /\ ~CategoryNegative(p) /\ ~CategoryPositive(p)
                /\ QuantityVolume(p) /\ (NameNegative(p) \/ NamePositive(p)))
                 => ret[1] = TRUE
            /\ (/\ DecidingRule(p) >= 5 /\ NameNegative(p) /\ NamePositive(p))
                 => ret[1] = FALSE

\* C4 witness: both a negative and a positive tag, a volume quantity and a
\* positive name keyword, no per-100ml declaration: classified solid by rule 2.
C4_Witness ==
    /\ pc = "return"
    /\ ~DeclaredPer100ml(arg.off_product)
    /\ CategoryNegative(arg.off_product) /\ CategoryPositive(arg.off_product)
    /\ QuantityVolume(arg.off_product) /\ NamePositive(arg.off_product)
    /\ ret[1] = FALSE

\* The classifier applied to every input: products whose categories_tags is
\* a list of at most one tag or a number
ClassifyInputInit ==
    /\ ScanIdle
    /\ pc = "call"
    /\ arg \in
         [ off_product :
             [ nutrition_data_per : PerVals,
               categories_tags : { << >> } \cup { <<tag>> : tag \in TagVals },
               categories_tags_type : {"list"},
               quantity : QuantityVals,
               product_name : NameVals,
               product_name_en : {<< >>},
               generic_name : {<< >>},
               brands : {<< >>},
               brand_owner : {<< >>} ]
             \cup
             [ nutrition_data_per : PerVals,
               categories_tags : { << >> },
               categories_tags_type : {"int"},
               quantity : QuantityVals,
               product_name : NameVals,
               product_name_en : {<< >>},
               generic_name : {<< >>},
               brands : {<< >>},
               brand_owner : {<< >>} ] ]
    /\ ret = << >>

SpecClassifyInput == ClassifyInputInit /\ [][ClassifyNext]_vars

\* C5: for every input the classifier returns a definite triple, whose
\* is_inferred is false exactly when the deciding rule is a strong signal
\* (rules 1-3) and true exactly when it is a heuristic (rules 4-7), and which
\* is solid/inferred/default_solid when no rule matches.
C5_InferredIffHeuristic ==
    pc # "call" =>
        /\ pc = "return"
        /\ LET k == DecidingRule(arg.off_product)
           IN  /\ ret[1] \in BOOLEAN /\ ret[2] \in BOOLEAN /\ Len(ret) = 3
               /\ ret[2] = (k \in 4 .. 7)
               /\ k = 7 => ret = <<FALSE, TRUE, "default_solid">>

\* the signal names of the specification, and those of the code, by rule
SpecReasonNames ==
    << "declared_per_100ml", "categories_negative", "categories_positive",
       "quantity_volume", "name_negative", "name_positive", "default_solid" >>
CodeReasonNames ==
    << "nutrition_data_per=100ml", "categories_negative", "categories_positive",
       "quantity_ml_l", "name_negative", "name_positive", "default_solid" >>

\* C6 (as claimed): the reason is one of the seven names declared_per_100ml,
\* categories_negative, categories_positive, quantity_volume, name_negative,
\* name_positive, default_solid, and each rule reports its own name.
C6_ReasonNamesAsClaimed ==
    pc = "return" => ret[3] = SpecReasonNames[DecidingRule(arg.off_product)]

\* C6 (amended): the reason is one of the seven names
\* nutrition_data_per=100ml, categories_negative, categories_positive,
\* quantity_ml_l, name_negative, name_positive, default_solid, and each rule
\* reports its own name.
C6_ReasonNames ==
    pc = "return" => ret[3] = CodeReasonNames[DecidingRule(arg.off_product)]

\* C6 witness: a name keyword decided and reported its own name.
C6_Witness ==
    /\ pc = "return"
    /\ DecidingRule(arg.off_product) \in {5, 6}
    /\ ret[3] \in {"name_negative", "name_positive"}

----------------------------------------------------------------------------
(* The data-quality assessor applied to a bounded set of arguments *)

\* the ingredients list holds up to MaxIngredients entries
MaxIngredients == 2

ProfileKeys == {"sugar_g", "salt_g", "sat_fat_g", "protein_g"}
\* every profile over every subset of the keys: a key left out is a field
\* that is None
PartialProfiles == UNION { [S -> {FZero(0), Dec(15, -1)}] : S \in SUBSET ProfileKeys }

QualityInit ==
    /\ ScanIdle
    /\ pc = "call"
    /\ arg \in
         [ source : {"local", "openfoodfacts"},
           nutrition_per_100 : PartialProfiles,
           ingredients : SeqsUpTo({"sugar", "water"}, MaxIngredients),
           serving_size_inferred : BOOLEAN,
           is_beverage_inferred : BOOLEAN,
           is_beverage : BOOLEAN,
           beverage_reason : {"default_solid"} ]
    /\ ret = << >>

BuildDataQuality ==
    /\ pc = "call"
    /\ ret' = build_data_quality(arg.source, arg.nutrition_per_100, arg.ingredients,
                                 arg.serving_size_inferred, arg.is_beverage_inferred,
                                 arg.is_beverage, arg.beverage_reason)
    /\ pc' = "return"
    /\ UNCHANGED arg
    /\ UNCHANGED scanvars

QualityNext == BuildDataQuality

SpecQuality == QualityInit /\ [][QualityNext]_vars

\* the three required nutrients are all in the profile given to the assessor
AllRequiredPresent == {"sugar_g", "salt_g", "sat_fat_g"} \subseteq DOMAIN arg.nutrition_per_100

\* C8: confidence by strict precedence: local => high whatever the fields and
\* ingredients; otherwise all three required nutrients present and ingredients
\* available => high; otherwise all three present => medium; otherwise low.
C8_ConfidencePrecedence ==
    pc = "return" =>
        /\ arg.source = "local" => ret.confidence = "high"
        /\ (arg.source # "local" /\ AllRequiredPresent /\ arg.ingredients # << >>)
             => ret.confidence = "high"
        /\ (arg.source # "local" /\ AllRequiredPresent /\ arg.ingredients = << >>)
             => ret.confidence = "medium"
        /\ (arg.source # "local" /\ ~AllRequiredPresent) => ret.confidence = "low"

\* C8 witness: a local record with a required nutrient missing and no
\* ingredients is rated high.
C8_Witness ==
    /\ pc = "return"
    /\ arg.source = "local" /\ ~AllRequiredPresent /\ arg.ingredients = << >>
    /\ ret.confidence = "high"

----------------------------------------------------------------------------
(* The scan pipeline: scan_product calls, the provider's answers, the clock *)
(* and reload_data                                                          *)

\* scan_product calls in flight at once
MaxTasks == 1
\* the clock advances TickSeconds at a time, MaxTicks times
TickSeconds == 300
MaxTicks == 3

Tasks == 1 .. MaxTasks

K1 == <<"1">>
K2 == <<"2">>
\* the product_id arguments: blank, and an id with and without padding
ProductIds == { <<" ">>, K1, <<" ", "1">> }

\* local catalog records
LocalYogurt ==
    [ name |-> <<"Y", "o", "g", "u", "r", "t">>, brand |-> <<"N", "o", "e", "s", "i", "s">>, is_beverage |-> FALSE,
      image_url |-> <<"y", ".", "p", "n", "g">>,
      serving_size |-> Num(Dec(2000, -1)),
      nutrients |-> [sugar |-> Num(Dec(60, -1)), salt |-> Num(Dec(5, -1)), fat |-> Num(Dec(10, -1)), protein |-> Num(Dec(100, -1))],
      ingredients |-> << <<"m", "i", "l", "k">> >> ]
LocalCola ==
    [ name |-> <<"C", "o", "l", "a">>, is_beverage |-> TRUE, serving_size |-> Num(Dec(3300, -1)),
      nutrients |-> [sugar |-> Num(Dec(390, -1))] ]
LocalNegative ==
    [ name |-> <<"B", "a", "r">>, is_beverage |-> FALSE, serving_size |-> Num(Dec(-500, -1)),
      nutrients |-> [sugar |-> Num(Dec(-10, -1)), salt |-> JNull, fat |-> Num(Dec(0, -1)), protein |-> Num(Dec(50, -1))] ]

\* numbers written as strings
LocalStrings ==
    [ name |-> <<"T", "e", "a">>, is_beverage |-> TRUE, serving_size |-> Str(<<"2", "5", "0">>),
      nutrients |-> [sugar |-> Str(<<"U+00A0", "4", ".", "5">>), salt |-> Str(<< >>),
                     protein |-> Str(<<"1", "e", "-", "1">>)] ]
\* a nutrient that is a string but not a number
LocalMalformed ==
    [ name |-> <<"J", "a", "m">>, is_beverage |-> FALSE, serving_size |-> Num(Dec(200, -1)),
      nutrients |-> [sugar |-> Str(<<"a", "b", "c">>), salt |-> Num(Dec(1, -1))] ]

\* the tables _load_json can give for products.json: {} when the file is
\* absent or unreadable (the default), else its contents, where K1 has no
\* record, a record, or the empty record {}
Catalogs ==
    { << >>,
      (K1 :> LocalYogurt),
      (K1 :> LocalNegative) @@ (K2 :> LocalCola),
      (K1 :> << >>) @@ (K2 :> LocalYogurt),
      (K1 :> LocalStrings) @@ (K2 :> LocalCola),
      (K1 :> LocalMalformed) }
\* the tables _load_json can give for rasff_alerts.json: {} when the file is
\* absent or unreadable, else its contents
AlertTables == { << >>, (K1 :> <<"salmonella">>) @@ (K2 :> <<"glass fragments">>) }

\* provider payloads
Product(fields) == fields @@ EmptyProduct
Payload(status, kind, product) ==
    [product_kind |-> kind, product |-> product, top |-> EmptyProduct, status |-> status]
PayloadCola ==
    Payload("1", "dict", Product(
      [ nutriments |-> ("sugars_100g" :> Num(Dec(106, -1))) @@ ("salt_100g" :> Num(Dec(0, -1)))
                       @@ ("saturated-fat_100g" :> Str(<<"0">>)),
        categories_tags |-> << <<"e", "n", ":", "s", "o", "d", "a", "s">> >>,
        quantity |-> <<"3", "3", "0", " ", "m", "l">>,
        serving_size |-> <<"0", ".", "3", "3", " ", "L">>,
        product_name |-> <<"C", "o", "l", "a">>,
        code |-> <<"5", "4", "4", "9">>,
        image_front_url |-> <<"c", ".", "j", "p", "g">>,
        ingredients_text |-> <<"w", "a", "t", "e", "r", ",", " ", "s", "u", "g", "a", "r">> ]))
\* no nutriments at all, no ingredients
PayloadBare ==
    Payload("1", "dict", Product([ product_name |-> <<"b", "r", "e", "a", "d">> ]))
\* sugar only, with ingredients
PayloadSugarOnly ==
    Payload("1", "dict", Product(
      [ nutriments |-> ("sugars_100g" :> Num(Dec(25, -1))),
        ingredients_text |-> <<"f", "l", "o", "u", "r", ";", " ", "s", "a", "l", "t">> ]))
\* negative and comma-decimal values, serving sizes that parse to 0
PayloadNegative ==
    Payload("1", "dict", Product(
      [ nutriments |-> ("sugars_100g" :> Str(<<"-", "1", ",", "5">>)) @@ ("salt_100g" :> Num(Dec(-3, -1)))
                       @@ ("saturated-fat_100g" :> Num(Dec(20, -1))) @@ ("proteins_100g" :> Num(Dec(50, -1)))
                       @@ ("serving_size" :> Str(<<"0", " ", "g">>)),
        serving_size |-> <<"0", " ", "g">>,
        product_name |-> <<"s", "o", "u", "p">> ]))
\* numbers written as text: in scientific notation, with more than one
\* decimal, in Arabic-Indic digits, and a NaN
PayloadTextNumbers ==
    Payload("1", "dict", Product(
      [ nutriments |-> ("sugars_100g" :> Str(<<"1", "e", "1">>)) @@ ("salt_100g" :> Str(<<"2", ".", "5", "5">>))
                       @@ ("saturated-fat_100g" :> Str(<<"n", "a", "n">>))
                       @@ ("proteins_100g" :> Str(<<"U+0663">>)),
        quantity |-> <<"3", "3", "0", "U+00A0", "M", "L">>,
        serving_size |-> <<"2", "5", "0", "U+00A0", "m", "l">>,
        product_name |-> <<"T", "e", "a", "U+00A0">> ]))
\* a sugar content that float() reads as an infinity
PayloadInfinite ==
    Payload("1", "dict", Product(
      [ nutriments |-> ("sugars_100g" :> Str(<<"i", "n", "f">>)),
        product_name |-> <<"s", "y", "r", "u", "p">> ]))
\* the provider's "not found" answer
PayloadNotFound == Payload("0", "none", EmptyProduct)
\* status 1 without a product object
PayloadNoProduct == Payload("1", "none", EmptyProduct)
\* status 0 with a product object
PayloadStatus0 ==
    Payload("0", "dict", Product(
      [ nutriments |-> ("sugars" :> Num(Dec(40, -1))) @@ ("salt" :> Num(Dec(1, -1))) @@ ("saturated_fat" :> Num(Dec(60, -1))),
        categories_tags |-> << <<"e", "n", ":", "y", "o", "g", "u", "r", "t", "s">> >>,
        ingredients |-> << [text |-> <<"m", "i", "l", "k">>, id |-> << >>] >> ]))

\* categories_tags is a number, not a list
PayloadTagsNumber ==
    Payload("1", "dict", Product(
      [ nutriments |-> ("sugars_100g" :> Num(Dec(50, -1))),
        categories_tags_type |-> "int",
        product_name |-> <<"t", "e", "a">> ]))
\* nutriments is a list, not a mapping: one that holds none of the keys looked
\* up, without and with a serving size of the product, and one that holds
\* such a key
PayloadNutrimentsList ==
    Payload("1", "dict", Product(
      [ nutriments_type |-> "list", nutriments_list |-> <<"fat">>,
        product_name |-> <<"r", "i", "c", "e">> ]))
PayloadNutrimentsListServing ==
    Payload("1", "dict", Product(
      [ nutriments_type |-> "list", nutriments_list |-> <<"fat">>,
        serving_size |-> <<"3", "0", " ", "g">>,
        product_name |-> <<"r", "i", "c", "e">> ]))
PayloadNutrimentsListKey ==
    Payload("1", "dict", Product(
      [ nutriments_type |-> "list", nutriments_list |-> <<"fat", "salt">>,
        serving_size |-> <<"3", "0", " ", "g">>,
        product_name |-> <<"r", "i", "c", "e">> ]))

Payloads ==
    { PayloadCola, PayloadBare, PayloadSugarOnly, PayloadNegative, PayloadTextNumbers,
      PayloadInfinite, PayloadNotFound, PayloadNoProduct, PayloadStatus0, PayloadTagsNumber,
      PayloadNutrimentsList, PayloadNutrimentsListServing, PayloadNutrimentsListKey }

\* what the GET can end in
Outcome(kind, status_code, json_ok, json_type, data) ==
    [kind |-> kind, status_code |-> status_code, json_ok |-> json_ok,
     json_type |-> json_type, data |-> data]
Outcomes ==
    { Outcome("timeout", 0, FALSE, "none", EmptyPayload),
      Outcome("request_error", 0, FALSE, "none", EmptyPayload),
      Outcome("response", 404, TRUE, "dict", PayloadNotFound),
      Outcome("response", 500, FALSE, "none", EmptyPayload),
      Outcome("response", 200, FALSE, "none", EmptyPayload),
      Outcome("response", 200, TRUE, "null", EmptyPayload),
      Outcome("response", 200, TRUE, "list", EmptyPayload) }
    \cup { Outcome("response", 200, TRUE, "dict", p) : p \in Payloads }

Init ==
    /\ pc = "scan" /\ arg = << >> /\ ret = << >>
    /\ products_db \in Catalogs
    /\ rasff_db \in AlertTables
    /\ cache = << >>
    /\ now = 0
    /\ task_pc = [t \in Tasks |-> "idle"]
    /\ task_pid = [t \in Tasks |-> << >>]
    /\ task_alerts = [t \in Tasks |-> << >>]
    /\ task_product = [t \in Tasks |-> << >>]
    /\ task_outcome = [t \in Tasks |-> << >>]
    /\ task_off = [t \in Tasks |-> << >>]
    /\ task_result = [t \in Tasks |-> << >>]

\* _cache_get: the entry, unless there is none or it is older than the TTL
CacheFreshNoExpiry(key) == key \in DOMAIN cache
CacheFresh(key) == key \in DOMAIN cache /\ ~(now - cache[key].ts > CACHE_TTL_SEC)
\* _CACHE.pop(key, None)
CachePop(key) == [ k \in DOMAIN cache \ {key} |-> cache[k] ]
\* _cache_set
CacheSet(key, data) == (key :> [ts |-> now, data |-> data]) @@ cache

\* products_db.get(pid): the record, << >> when there is none
LocalRecord(pid) == IF pid \in DOMAIN products_db THEN products_db[pid] ELSE << >>
\* `if product:` a record that is not the empty dict
LocalHit(product) == DOMAIN product # {}

\* fetch_off_product returning without a GET: the empty barcode and the
\* cache hit
EmptyBarcode == OFFResult(FALSE, 400, EmptyPayload)
CacheHit(key) == OFFResult(TRUE, 200, cache[key].data)
WithoutGet(key) == IF key = << >> THEN EmptyBarcode ELSE CacheHit(key)

\* rasff_db.get(pid, []) or [] on a table
AlertsOf(table, pid) == IF pid \in DOMAIN table THEN table[pid] ELSE << >>

\* scan_product(product_id), lines 282-284: the id is stripped and the
\* advisory table is read.  reload_data can run on another thread, so the
\* read of the catalog on the next line is a step of its own.
ScanProduct(t, product_id) ==
    /\ task_pc[t] = "idle"
    /\ task_pid' = [task_pid EXCEPT ![t] = Strip(product_id)]
    /\ task_alerts' = [task_alerts EXCEPT ![t] = AlertsOf(rasff_db, Strip(product_id))]
    /\ task_pc' = [task_pc EXCEPT ![t] = "lookup"]
    /\ UNCHANGED <<products_db, rasff_db, cache, now, task_product, task_outcome, task_off,
                   task_result, fnvars>>

\* scan_product from the catalog lookup to its return or to the await of the
\* GET: lines 285-332, and fetch_off_product lines 59-77
LookupProduct(t) ==
    LET pid == task_pid[t]
        rasff_alerts == task_alerts[t]
        product == LocalRecord(pid)
        Return(result, off, newcache) ==
            /\ task_pc' = [task_pc EXCEPT ![t] = IF Raised(result) THEN "raised" ELSE "done"]
            /\ task_off' = [task_off EXCEPT ![t] = off]
            /\ task_result' = [task_result EXCEPT ![t] = result]
            /\ cache' = newcache
    IN  /\ task_pc[t] = "lookup"
        /\ task_product' = [task_product EXCEPT ![t] = product]
        /\ IF LocalHit(product)
           THEN Return(scan_local(pid, product, rasff_alerts), << >>, cache)
           ELSE IF pid = << >> \/ CacheFresh(pid)
           THEN Return(scan_after_fetch(pid, WithoutGet(pid), rasff_alerts),
                       WithoutGet(pid), cache)
           ELSE /\ task_pc' = [task_pc EXCEPT ![t] = "http"]
                /\ cache' = CachePop(pid)
                /\ UNCHANGED <<task_off, task_result>>
        /\ UNCHANGED <<products_db, rasff_db, now, task_pid, task_alerts, task_outcome, fnvars>>

\* the GET of a waiting scan_product ends in outcome: fetch_off_product lines
\* 78-97 return off or raise it, then scan_product lines 336-376
HttpReturn(t, outcome, off, result) ==
    /\ task_pc[t] = "http"
    /\ task_outcome' = [task_outcome EXCEPT ![t] = outcome]
    /\ task_off' = [task_off EXCEPT ![t] = off]
    /\ cache' = IF ~Raised(off) /\ off.ok THEN CacheSet(task_pid[t], outcome.data) ELSE cache
    /\ task_result' = [task_result EXCEPT ![t] = result]
    /\ task_pc' = [task_pc EXCEPT ![t] = IF Raised(result) THEN "raised" ELSE "done"]
    /\ UNCHANGED <<products_db, rasff_db, now, task_pid, task_alerts, task_product, fnvars>>
HttpFetched(t, outcome, off) ==
    HttpReturn(t, outcome, off, scan_after_fetch(task_pid[t], off, task_alerts[t]))
HttpResponse(t, outcome) == HttpFetched(t, outcome, fetch_result(outcome))

\* the caller takes the result or the exception; the task can serve another
\* call
Respond(t) ==
    /\ task_pc[t] \in {"done", "raised"}
    /\ task_pc' = [task_pc EXCEPT ![t] = "idle"]
    /\ task_pid' = [task_pid EXCEPT ![t] = << >>]
    /\ task_alerts' = [task_alerts EXCEPT ![t] = << >>]
    /\ task_product' = [task_product EXCEPT ![t] = << >>]
    /\ task_outcome' = [task_outcome EXCEPT ![t] = << >>]
    /\ task_off' = [task_off EXCEPT ![t] = << >>]
    /\ task_result' = [task_result EXCEPT ![t] = << >>]
    /\ UNCHANGED <<products_db, rasff_db, cache, now, fnvars>>

\* time passes
Tick ==
    /\ now + TickSeconds <= MaxTicks * TickSeconds
    /\ now' = now + TickSeconds
    /\ UNCHANGED <<products_db, rasff_db, cache, taskvars, fnvars>>

\* a table updated in place, key by key, as a reader sees it after the first
\* key
UpdateInPlace(current, loaded) ==
    IF DOMAIN loaded = {} THEN current
    ELSE LET k == CHOOSE key \in DOMAIN loaded : TRUE
         IN  (k :> loaded[k]) @@ current
\* `name = _load_json(...)` under `global name`: the name is bound to the
\* dict just loaded; the dict it named before is left as it was
Rebind(current, loaded) == loaded

\* reload_data, line 381: the catalog is replaced by what products.json holds
\* now.  The two assignments of reload_data are two steps: a scan on another
\* thread can run between them.
ReloadProducts ==
    /\ \E loaded \in Catalogs : products_db' = Rebind(products_db, loaded)
    /\ UNCHANGED <<rasff_db, cache, now, taskvars, fnvars>>

\* reload_data, line 382: the advisory table is replaced by what
\* rasff_alerts.json holds now
ReloadRasff ==
    /\ \E loaded \in AlertTables : rasff_db' = Rebind(rasff_db, loaded)
    /\ UNCHANGED <<products_db, cache, now, taskvars, fnvars>>

Next ==
    \/ \E t \in Tasks : \E product_id \in ProductIds : ScanProduct(t, product_id)
    \/ \E t \in Tasks : LookupProduct(t)
    \/ \E t \in Tasks : \E outcome \in Outcomes : HttpResponse(t, outcome)
    \/ \E t \in Tasks : Respond(t)
    \/ Tick
    \/ ReloadProducts
    \/ ReloadRasff

Spec == Init /\ [][Next]_vars

\* a scan_product call that has returned, and a returned dict that is a
\* scored result
Done(t) == task_pc[t] = "done"
Scored(result) == "vitascore" \in DOMAIN result
Remote(t) == Done(t) /\ Scored(task_result[t]) /\ task_result[t].source = "openfoodfacts"

\* The nutriments map a payload is normalized from, and the keys under which
\* each required nutrient is looked up in it
SourceNutriments(payload) ==
    IF payload.product_kind = "dict" THEN payload.product.nutriments
    ELSE payload.top.nutriments
RequiredNutrientKeys ==
    << {"sugars_100g", "sugar_100g", "sugars", "sugar"},
       {"salt_100g", "salt"},
       {"saturated-fat_100g", "saturated_fat_100g", "saturated-fat", "saturated_fat"} >>
\* the payload has no field at all for at least one required nutrient
MissesRequiredNutrient(payload) ==
    \E i \in DOMAIN RequiredNutrientKeys :
        RequiredNutrientKeys[i] \cap DOMAIN SourceNutriments(payload) = {}

\* C7: for a scan served from the remote provider, a payload that is missing
\* any of the three required nutrient fields (sugar, salt, saturated fat)
\* gets a confidence that is neither medium nor high, and "low" when no
\* ingredients are available either.
C7_MissingFieldsNotMediumHigh ==
    \A t \in Tasks :
        Remote(t) /\ MissesRequiredNutrient(task_off[t].payload)
        => /\ task_result[t].data_quality.confidence \notin {"medium", "high"}
           /\ ~task_result[t].data_quality.ingredients_available
              => task_result[t].data_quality.confidence = "low"

\* The remote fetch of call t failed: the id was empty, or the GET ended in a
\* timeout, a request error, a status other than 200 or a body that is not
\* JSON.
FetchFailed(t) ==
    \/ task_pid[t] = << >>
    \/ /\ task_outcome[t] # << >>
       /\ \/ task_outcome[t].kind \in {"timeout", "request_error"}
          \/ task_outcome[t].status_code # 200
          \/ ~task_outcome[t].json_ok
\* The remote fetch of call t returned no product: the GET was answered with
\* 200 and a JSON body that is not an object, or an object without a product.
ReturnedNoProduct(t) ==
    /\ task_outcome[t] # << >>
    /\ task_outcome[t].kind = "response" /\ task_outcome[t].status_code = 200
    /\ task_outcome[t].json_ok
    /\ \/ task_outcome[t].json_type # "dict"
       \/ task_outcome[t].data.product_kind = "none"

\* C9: when the local catalog gave no record for the id and the remote fetch
\* fails (empty id, timeout, request error, non-200, invalid JSON) or returns
\* no product, scan_product returns {"error": "Product not found"} and not a
\* scored result; and that dict is told apart from every scored result: only
\* it has the key "error", and every other result names its source, local or
\* openfoodfacts.
C9_NotFoundWhenNoSource ==
    \A t \in Tasks :
        /\ (/\ task_pc[t] \in {"done", "raised"}
            /\ ~LocalHit(task_product[t])
            /\ (FetchFailed(t) \/ ReturnedNoProduct(t)))
           => (Done(t) /\ task_result[t] = NotFound)
        /\ Done(t) =>
             \/ task_result[t] = NotFound
             \/ /\ "error" \notin DOMAIN task_result[t]
                /\ Scored(task_result[t])
                /\ task_result[t].source \in {"local", "openfoodfacts"}

\* C10: in every scored result, local or remote, nutrition_per_100 has the
\* four nutrients >= 0, a serving_size > 0 and a unit that is g or ml, ml
\* exactly when is_beverage is true.
C10_ProfileNonNegative ==
    \A t \in Tasks :
        Done(t) /\ Scored(task_result[t]) =>
          /\ FGe(task_result[t].nutrition_per_100.sugar_g, FZero(0))
          /\ FGe(task_result[t].nutrition_per_100.salt_g, FZero(0))
          /\ FGe(task_result[t].nutrition_per_100.sat_fat_g, FZero(0))
          /\ FGe(task_result[t].nutrition_per_100.protein_g, FZero(0))
          /\ FGt(task_result[t].nutrition_per_100.serving_size, FZero(0))
          /\ task_result[t].nutrition_per_100.unit \in {"g", "ml"}
          /\ task_result[t].nutrition_per_100.unit = "ml"
             <=> task_result[t].data_quality.is_beverage

\* C14: the local catalog is consulted before the remote provider: whenever
\* the catalog holds a record under the trimmed id, the catalog lookup of
\* scan_product ends in a returned result with source "local" and no call of
\* the remote provider; the provider is called only when the lookup found no
\* entry for the id.
C14_LocalFirst ==
    [][\A t \in Tasks :
         (task_pc[t] = "lookup" /\ task_pc'[t] # "lookup") =>
           /\ task_pid[t] \in DOMAIN products_db
              => /\ task_pc'[t] = "done"
                 /\ Scored(task_result'[t]) /\ task_result'[t].source = "local"
                 /\ task_off'[t] = << >>
           /\ (task_pc'[t] = "http" \/ task_off'[t] # << >>)
              => task_pid[t] \notin DOMAIN products_db]_vars

\* the positions of the note citing the beverage-inference reason in a tips
\* sequence
ReasonNoteAt(tips) == { i \in DOMAIN tips : tips[i][1] = "beverage_detection_reason" }

\* C15: in the tips of a scored result the note citing the beverage-inference
\* reason is present exactly when the reason is neither categories_negative
\* nor categories_positive; when present it cites the reason of the result,
\* comes after the serving-size-inferred note and before the two fixed tips.
C15_ReasonNoteUnlessCategory ==
    \A t \in Tasks :
        Done(t) /\ Scored(task_result[t]) =>
          /\ ReasonNoteAt(task_result[t].tips) # {}
             <=> task_result[t].data_quality.beverage_inference_reason
                   \notin {"categories_negative", "categories_positive"}
          /\ \A i \in ReasonNoteAt(task_result[t].tips) :
               /\ task_result[t].tips[i][2]
                    = task_result[t].data_quality.beverage_inference_reason
               /\ \A j \in DOMAIN task_result[t].tips :
                    /\ task_result[t].tips[j][1] = "serving_size_inferred" => j < i
                    /\ task_result[t].tips[j][1] \in {"tip_beverage_sugar", "tip_solid_sat_fat"}
                       => i < j

\* C12: no malformed input makes the pipeline fail: whatever the types of
\* the fields of a local record or a remote payload, no scan_product call
\* ends in an exception; each returns a result.
C12_NeverRaises ==
    \A t \in Tasks : task_pc[t] # "raised" /\ ~Raised(task_result[t])

----------------------------------------------------------------------------
(* reload_data while scan_product calls are running *)

\* the number of scan_product calls in flight at once
MaxReloadTasks == 2
ReloadTasks == 1 .. MaxReloadTasks
\* the product_id arguments: the two ids of the catalogs, one with padding
ReloadIds == { K1, <<" ", "2">> }
\* the outcomes of the GET: a failure and a found answer
ReloadOutcomes ==
    { Outcome("timeout", 0, FALSE, "none", EmptyPayload),
      Outcome("response", 200, TRUE, "dict", PayloadBare) }

ReloadInit ==
    /\ pc = "scan" /\ arg = << >> /\ ret = << >>
    /\ products_db \in Catalogs
    /\ rasff_db \in AlertTables
    /\ cache = << >>
    /\ now = 0
    /\ task_pc = [t \in ReloadTasks |-> "idle"]
    /\ task_pid = [t \in ReloadTasks |-> << >>]
    /\ task_alerts = [t \in ReloadTasks |-> << >>]
    /\ task_product = [t \in ReloadTasks |-> << >>]
    /\ task_outcome = [t \in ReloadTasks |-> << >>]
    /\ task_off = [t \in ReloadTasks |-> << >>]
    /\ task_result = [t \in ReloadTasks |-> << >>]

ReloadNext ==
    \/ \E t \in ReloadTasks : \E product_id \in ReloadIds : ScanProduct(t, product_id)
    \/ \E t \in ReloadTasks : LookupProduct(t)
    \/ \E t \in ReloadTasks : \E outcome \in ReloadOutcomes : HttpResponse(t, outcome)
    \/ \E t \in ReloadTasks : Respond(t)
    \/ ReloadProducts
    \/ ReloadRasff

SpecReload == ReloadInit /\ [][ReloadNext]_vars

\* the entry of a table under pid, << >> when it has none
EntryOf(table, pid) == IF pid \in DOMAIN table THEN table[pid] ELSE << >>

\* C13: under every interleaving of reload_data with concurrently running
\* scan_product calls, each table is at every moment one of the whole tables
\* _load_json can give, never a mix of an old and a new one, and what a scan
\* has read from a table (its alerts, its local record) is the entry of one
\* such whole table.
C13_TablesWhole ==
    /\ products_db \in Catalogs
    /\ rasff_db \in AlertTables
    /\ \A t \in ReloadTasks :
         /\ task_pc[t] # "idle"
            => \E table \in AlertTables : task_alerts[t] = AlertsOf(table, task_pid[t])
         /\ task_pc[t] \in {"http", "done", "raised"}
            => \E table \in Catalogs : task_product[t] = EntryOf(table, task_pid[t])

\* two scans are running and a reload fell between the two lookups of one of
\* them: the advisory table is no longer the one it read its alerts from and
\* its catalog lookup is still to come, while the other scan, which has read
\* its record, awaits the provider
C13_Witness ==
    \E t, u \in ReloadTasks :
        /\ t # u
        /\ task_pc[t] = "lookup"
        /\ task_alerts[t] # AlertsOf(rasff_db, task_pid[t])
        /\ task_pc[u] = "http"

----------------------------------------------------------------------------
(* Concurrent scan_product calls that go to the provider through the cache *)

\* the number of calls in flight at once
MaxFetchTasks == 2
FetchTasks == 1 .. MaxFetchTasks
\* the product_id arguments: blank, and an id without a local record, with
\* and without padding
FetchIds == { <<" ">>, K2, <<" ", "2">> }
\* the outcomes of the GET: every failure, the bodies that are not objects,
\* the not-found answer with HTTP 200, and two different found answers
FetchOutcomes ==
    { o \in Outcomes : o.data \in {EmptyPayload, PayloadNotFound, PayloadCola, PayloadBare} }

FetchInit ==
    /\ pc = "scan" /\ arg = << >> /\ ret = << >>
    /\ products_db = (K1 :> LocalYogurt)
    /\ rasff_db = << >>
    /\ cache = << >>
    /\ now = 0
    /\ task_pc = [t \in FetchTasks |-> "idle"]
    /\ task_pid = [t \in FetchTasks |-> << >>]
    /\ task_alerts = [t \in FetchTasks |-> << >>]
    /\ task_product = [t \in FetchTasks |-> << >>]
    /\ task_outcome = [t \in FetchTasks |-> << >>]
    /\ task_off = [t \in FetchTasks |-> << >>]
    /\ task_result = [t \in FetchTasks |-> << >>]

FetchNext ==
    \/ \E t \in FetchTasks : \E product_id \in FetchIds : ScanProduct(t, product_id)
    \/ \E t \in FetchTasks : LookupProduct(t)
    \/ \E t \in FetchTasks : \E outcome \in FetchOutcomes : HttpResponse(t, outcome)
    \/ \E t \in FetchTasks : Respond(t)
    \/ Tick

SpecFetch == FetchInit /\ [][FetchNext]_vars

\* the GET ended in HTTP 200 with parseable JSON that is not classified as
\* not found: an object that passes the test of line 92
FetchSucceeded(outcome) ==
    /\ outcome.kind = "response" /\ outcome.status_code = 200 /\ outcome.json_ok
    /\ outcome.json_type = "dict"
    /\ ~ClassifiedNotFound(outcome.data)

\* the step ends the GET of task t
GetEnds(t) == task_pc[t] = "http" /\ task_pc'[t] # "http"
\* the step is the cache lookup of task t: fetch_off_product is entered
\* with a barcode, after the catalog had no record
CacheLookup(t) ==
    /\ task_pc[t] = "lookup" /\ task_pc'[t] # "lookup"
    /\ ~LocalHit(LocalRecord(task_pid[t])) /\ task_pid[t] # << >>
\* the age of the entry under key
Age(key) == now - cache[key].ts

\* C17: the cache gets or replaces an entry for a barcode only when a fetch
\* of that barcode received HTTP 200 with parseable JSON not classified as
\* not found, and the entry is that answer; a fetch that ends in failure
\* (empty barcode, timeout, request error, non-200, invalid JSON, not found,
\* or an exception on a body that is not an object) adds and overwrites
\* nothing; a cached payload is returned only while its
\* age is at most the TTL, and an entry older than that is removed and the
\* provider is called again.
C17_CacheDiscipline ==
    [][/\ \A key \in DOMAIN cache' :
            (key \notin DOMAIN cache \/ cache'[key] # cache[key])
            => \E t \in FetchTasks :
                  /\ GetEnds(t) /\ task_pid[t] = key
                  /\ FetchSucceeded(task_outcome'[t])
                  /\ cache'[key] = [ts |-> now, data |-> task_outcome'[t].data]
       /\ \A t \in FetchTasks :
            /\ (GetEnds(t) /\ ~FetchSucceeded(task_outcome'[t]))
               => (cache' = cache /\ (Raised(task_off'[t]) \/ ~task_off'[t].ok))
            /\ (task_pc[t] = "lookup" /\ task_off'[t] = EmptyBarcode) => cache' = cache
            /\ (CacheLookup(t) /\ task_pc'[t] # "http")
               => /\ task_pid[t] \in DOMAIN cache
                  /\ Age(task_pid[t]) <= CACHE_TTL_SEC
                  /\ task_off'[t] = OFFResult(TRUE, 200, cache[task_pid[t]].data)
                  /\ cache' = cache
            /\ (CacheLookup(t) /\ task_pid[t] \in DOMAIN cache
                              /\ Age(task_pid[t]) > CACHE_TTL_SEC)
               => /\ task_pc'[t] = "http"
                  /\ task_pid[t] \notin DOMAIN cache'
            /\ (CacheLookup(t) /\ task_pid[t] \in DOMAIN cache
                              /\ Age(task_pid[t]) <= CACHE_TTL_SEC)
               => task_pc'[t] # "http"]_vars

\* C17 witness: a call answered from the cache by an entry whose age is
\* exactly the TTL or less, but not zero
C17_Witness ==
    \E t \in FetchTasks :
        /\ task_pc[t] \in {"done", "raised"}
        /\ task_off[t] # << >> /\ ~Raised(task_off[t]) /\ task_off[t].ok
        /\ task_outcome[t] = << >>
        /\ task_pid[t] \in DOMAIN cache
        /\ Age(task_pid[t]) > 0 /\ Age(task_pid[t]) <= CACHE_TTL_SEC
        /\ task_off[t].payload = cache[task_pid[t]].data
        /\ ~ClassifiedNotFound(cache[task_pid[t]].data)

----------------------------------------------------------------------------
(* The normalizer applied to a bounded set of payloads *)

\* product.serving_size: absent, plain amounts, amounts of zero, litres, an
\* amount in Arabic-Indic digits before a no-break space, a text with no
\* unit, an amount in parentheses
ProductServingVals ==
    { << >>,
      <<"3", "0", " ", "g">>,
      <<"0", " ", "g">>,
      <<"0", " ", "m", "l">>,
      <<"0", ".", "3", "3", " ", "L">>,
      <<"U+0663", "U+0663", "U+0660", "U+00A0", "m", "l">>,
      <<"o", "n", "e", " ", "b", "a", "r">>,
      <<"1", " ", "b", "a", "r", " ", "(", "2", "5", " ", "g", ")">> }
\* nutriments: without serving_size, or with it as a string, a number or null
NutrimentVals ==
    { ("sugars_100g" :> Num(Dec(106, -1))) }
    \cup { ("sugars_100g" :> Num(Dec(106, -1))) @@ ("serving_size" :> v) :
             v \in { Str(<<"2", "5", "0", "m", "l">>), Str(<<"0", " ", "g">>),
                     Str(<<"5", " ", "c", "l">>), Str(<<"a", "b", "c">>),
                     Num(Dec(300, -1)), JNull } }
\* categories_tags: none (a solid by default) or a beverage category
NormalizeTagVals == { << >>, << <<"e", "n", ":", "s", "o", "d", "a", "s">> >> }

NormalizeInit ==
    /\ ScanIdle
    /\ pc = "call"
    /\ \E serving \in ProductServingVals, nutriments \in NutrimentVals,
          tags \in NormalizeTagVals, barcode \in {K1, << >>} :
         arg = [ off_payload |->
                   Payload("1", "dict",
                           Product([ serving_size |-> serving, nutriments |-> nutriments,
                                     categories_tags |-> tags, code |-> <<"7">> ])),
                 barcode |-> barcode ]
    /\ ret = << >>

NormalizeOpenFoodFacts ==
    /\ pc = "call"
    /\ ret' = normalize_openfoodfacts(arg.off_payload, arg.barcode)
    /\ pc' = "return"
    /\ UNCHANGED arg
    /\ UNCHANGED scanvars

NormalizeNext == NormalizeOpenFoodFacts

SpecNormalize == NormalizeInit /\ [][NormalizeNext]_vars

\* what each of the two serving fields of the payload under check parses to
ProductServing == parse_serving_size_to_g_or_ml(arg.off_payload.product.serving_size)
NutrimentServing ==
    IF "serving_size" \in DOMAIN arg.off_payload.product.nutriments
    THEN parse_serving_value(arg.off_payload.product.nutriments["serving_size"])
    ELSE None

\* C11: serving_size is the parsed product-level serving field if it
\* resolves, otherwise the parsed nutriment-embedded serving field if it
\* resolves, otherwise 330 for a beverage and 100 for a solid;
\* serving_size_inferred is true exactly when the default was used.
C11_ServingResolution ==
    pc = "return" =>
        /\ ret.nutrition_per_100.serving_size =
             IF ProductServing.ok THEN ProductServing.v
             ELSE IF NutrimentServing.ok THEN NutrimentServing.v
             ELSE IF ret.is_beverage THEN DefaultServingBeverage
             ELSE DefaultServingSolid
        /\ ret.serving_size_inferred <=> ~(ProductServing.ok \/ NutrimentServing.ok)

====
